---- MODULE Spec2Model ----
(***************************************************************************)
(* A model of the search engine of x265_optimizer: the SearchSpace         *)
(* (core_refactor/params.py), the caching cost evaluators                  *)
(* (core_refactor/cost.py), the RelevancyGuidedOptimizer                   *)
(* (core_refactor/algorithms.py) and the RandomOptimizer baseline          *)
(* (experiments/baselines/random_search.py).                               *)
(*                                                                         *)
(* Costs are Python floats.  They are modelled as exact rationals <<n, d>> *)
(* with d > 0, plus the three IEEE specials the code can produce:          *)
(* +inf = <<1, 0>>, -inf = <<-1, 0>>, nan = <<0, 0>>.  Rounding of float   *)
(* arithmetic is not modelled.                                             *)
(***************************************************************************)
EXTENDS Integers, Sequences, FiniteSets, TLC

\* ------------------------------------------------------------------ bounds

\* Number of candidates kept for a strength-like parameter: a window of the
\* source's candidate list.  For aq-strength and cutree-strength it starts
\* one step left of the default value, for qcomp it ends at the default
\* value (so that a walk of several steps to the left exists).
StrLen == 3

\* Number of candidates kept for aq-mode: the first ModeLen of [0,1,2,3,4].
ModeLen == 2

\* Videos of the largest workload handed to evaluate().
MaxVideos == 3

\* Length of the first group of a workload.  The source splits at 11
\* (cost.py line 132); the model splits at FirstGroupLen to keep the number
\* of concurrent workers small.
FirstGroupLen == 2

\* Cap on the evaluation counter in the evaluator specification.
MaxEvals == 3

\* Budget of the RandomOptimizer (max_evals).
MaxRandEvals == 2

\* ------------------------------------------------------- float arithmetic

Abs(x) == IF x < 0 THEN -x ELSE x

RECURSIVE GCD(_, _)
GCD(a, b) == IF b = 0 THEN a ELSE GCD(b, a % b)

Rat(n, d) == LET g == GCD(Abs(n), d) IN <<n \div g, d \div g>>

FromInt(i) == <<i, 1>>

Inf == <<1, 0>>

NegInf == <<-1, 0>>

NaN == <<0, 0>>

IsFinite(c) == c[2] # 0

\* a < b on floats: false whenever either side is nan.
Lt(a, b) ==
    IF ~IsFinite(a) /\ ~IsFinite(b)
    THEN a = NegInf /\ b = Inf
    ELSE a[1] * b[2] < b[1] * a[2]

\* a <= b on floats.
Le(a, b) == Lt(a, b) \/ (a = b /\ a # NaN)

Neg(a) == <<-a[1], a[2]>>

Add(a, b) ==
    IF a = NaN \/ b = NaN THEN NaN
    ELSE IF ~IsFinite(a) THEN (IF ~IsFinite(b) /\ b # a THEN NaN ELSE a)
    ELSE IF ~IsFinite(b) THEN b
    ELSE Rat(a[1] * b[2] + b[1] * a[2], a[2] * b[2])

Sub(a, b) == Add(a, Neg(b))

AbsF(a) == <<Abs(a[1]), a[2]>>

\* a / k and a * k for an integer k > 0.
DivInt(a, k) == IF IsFinite(a) THEN Rat(a[1], a[2] * k) ELSE a

MulInt(a, k) == IF IsFinite(a) THEN Rat(a[1] * k, a[2]) ELSE a

\* ------------------------------------------------------------ SearchSpace

\* The modules of the space kept by the model (psyrdo and psyrdoq, two more
\* dual modules of the same shape as vaq, are left out).
ModuleNames == {"vaq", "cutree", "qcomp"}

\* Module.params, in the order the parameters were given.
ParamList(m) ==
    CASE m = "vaq" -> <<"aq-mode", "aq-strength">>
      [] m = "cutree" -> <<"cutree", "cutree-strength">>
      [] m = "qcomp" -> <<"qcomp">>

ParamsOf(m) == {ParamList(m)[i] : i \in 1..Len(ParamList(m))}

\* Parameter.candidates (sorted): aq-strength and cutree-strength in tenths,
\* qcomp in hundredths.
Candidates(p) ==
    CASE p = "aq-mode" -> [i \in 1..ModeLen |-> i - 1]
      [] p = "aq-strength" -> [i \in 1..StrLen |-> 8 + i]
      [] p = "cutree" -> <<0, 1>>
      [] p = "cutree-strength" -> [i \in 1..StrLen |-> 18 + i]
      [] p = "qcomp" -> [i \in 1..StrLen |-> 60 - StrLen + i]

\* Parameter.idx after _init_default_space (0-based, as in the source).
DefaultIdx(p) ==
    CASE p = "aq-mode" -> IF ModeLen > 2 THEN 2 ELSE ModeLen - 1
      [] p = "aq-strength" -> 1
      [] p = "cutree" -> 1
      [] p = "cutree-strength" -> 1
      [] p = "qcomp" -> StrLen - 1

IsDual(m) == m = "vaq"

\* The module orders handed to the optimizer (the module_order argument of
\* its constructor): parts of the default order (algorithms.py line 13).
ModuleOrders == {<<"qcomp", "vaq">>, <<"cutree">>}

\* Module.dependency of vaq: lambda mode: mode != 0.
Dependency(m, mode_value) == IF m = "vaq" THEN mode_value # 0 ELSE TRUE

\* Module.is_strength_active.
is_strength_active(m, mode_value) == Dependency(m, mode_value)

Len0(p) == Len(Candidates(p))

IdxSpace == [m \in ModuleNames |-> [p \in ParamsOf(m) |-> DefaultIdx(p)]]

\* Parameter.value for every parameter: SearchSpace.get_all_config.
get_all_config(ix) ==
    [m \in ModuleNames |-> [p \in ParamsOf(m) |-> Candidates(p)[ix[m][p] + 1]]]

\* Parameter.get_neighbors: the sides on which a candidate exists.
get_neighbors(ix, m, p) ==
    (IF ix[m][p] > 0 THEN {"left"} ELSE {})
        \cup (IF ix[m][p] < Len0(p) - 1 THEN {"right"} ELSE {})

Max(a, b) == IF a > b THEN a ELSE b

Min(a, b) == IF a < b THEN a ELSE b

\* Parameter.move_index: the clamped new index.
MoveIndexWrapped(ix, m, p, step) == (ix[m][p] + step) % Len0(p)

move_index(ix, m, p, step) == Max(0, Min(Len0(p) - 1, ix[m][p] + step))

SetIdx(ix, m, p, i) == [ix EXCEPT ![m][p] = i]

\* The cache key of a configuration: frozenset((m, frozenset(p.items()))).
Fingerprint(cfg) ==
    {<<m, {<<p, cfg[m][p]>> : p \in DOMAIN cfg[m]}>> : m \in DOMAIN cfg}

\* The denominator that turns a candidate of the model into the source's
\* value: tenths for the strengths, hundredths for qcomp.
Scale(p) ==
    CASE p = "aq-strength" -> 10
      [] p = "cutree-strength" -> 10
      [] p = "qcomp" -> 100
      [] OTHER -> 1

\* The modules in the order of SearchSpace.modules.
ModuleSeq == <<"vaq", "cutree", "qcomp">>

AllParams == UNION {ParamsOf(m) : m \in ModuleNames}

\* Every state of the space.
AllIdx ==
    { [m \in ModuleNames |-> [p \in ParamsOf(m) |-> f[p]]] :
          f \in {g \in [AllParams -> 0..(StrLen - 1)] : \A p \in AllParams : g[p] < Len0(p)} }

\* No MockEvaluator is in use.
NoTarget == <<>>

\* MockEvaluator.evaluate: (p_val - target_val) ** 2 for one parameter.
SqDist(cfg, tgt, m, p) ==
    LET d == cfg[m][p] - tgt[m][p]
    IN Rat(d * d, Scale(p) * Scale(p))

\* ... summed over the first k parameters of module m.
RECURSIVE ModuleDist(_, _, _, _)
ModuleDist(cfg, tgt, m, k) ==
    IF k = 0 THEN FromInt(0)
    ELSE Add(ModuleDist(cfg, tgt, m, k - 1), SqDist(cfg, tgt, m, ParamList(m)[k]))

\* ... summed over the first j modules.
RECURSIVE TotalDist(_, _, _)
TotalDist(cfg, tgt, j) ==
    IF j = 0 THEN FromInt(0)
    ELSE Add(TotalDist(cfg, tgt, j - 1),
             ModuleDist(cfg, tgt, ModuleSeq[j], Len(ParamList(ModuleSeq[j]))))

\* MockEvaluator.evaluate(params): total_dist.
MockEvaluate(cfg, tgt) == TotalDist(cfg, tgt, Len(ModuleSeq))

\* --------------------------------------------------------------- state

VARIABLES
    \* CostEvaluator fields
    kind,             \* "x265" (X265CostEvaluator) or "vmaf" (VMAFCostEvaluator)
    allow_pruning,
    cache,            \* fingerprint -> cost
    global_min_cost,
    eval_count,
    \* the frame of the evaluate() call in progress
    epc,              \* "idle", "loop" (between groups), "workers", "vworkers"
    gi,               \* index of the group the loop is at (1, 2; 3 = loop over)
    total_rd_loss,
    count,
    pending,          \* videos whose worker is still running
    group_total,      \* sum of the results collected from the current group
    first_bad,        \* "val", or what ended the as_completed loop early
    \* history: the last evaluate() call
    call_fp,          \* its fingerprint
    call_n,           \* the number of videos of its workload
    ret,              \* the cost it returned
    outcome,          \* "none", "hit", "measured", "error" (ValueError), "raised"
    started,          \* videos it submitted to a worker
    g_loss,           \* the losses of the groups it completed, in order
    best_before,      \* global_min_cost when it began
    call_failed,      \* whether the measurement of one of its videos failed
    measured,         \* fingerprint -> measurements begun since the last reset
    returned,         \* the costs evaluate() returned since the last reset
    reset_seen,       \* what the last reset() of a pruning evaluator discarded
    \* SearchSpace
    idx,              \* module -> parameter -> Parameter.idx
    \* RelevancyGuidedOptimizer: position and locals of optimize()
    opc,
    module_order,     \* self.module_order
    best_global_config,
    min_global_cost,
    cost_at_start,
    module_i,         \* position in module_order (1-based)
    \* ... of _optimize_dual_param_module
    local_cost,
    prev_cost,
    \* ... of _directional_search and _traversal_search
    s_param,          \* the parameter searched
    current_cost,
    direction,
    best_idx,
    min_cost,
    original_idx,
    trav_i,
    result,           \* the configuration optimize() returned
    \* history of the optimizer
    initial_cost,     \* the cost of the first evaluation of optimize()
    start_cost,       \* current_cost as passed to the search in progress
    start_ok,         \* ... was the cost of the configuration held then
    trav_evals,       \* candidate index -> evaluate() calls of the traversal
    round_mode,       \* value of the mode parameter when the inner round began
    round_str_idx,    \* index of the strength parameter at that time
    round_str_probed, \* whether the round evaluated another strength value
    dir_trace,        \* what the _directional_search in progress has done so far
    search_trace,     \* the indices held when the search in progress began, and the last evaluated
    \* RandomOptimizer.optimize: its locals
    rs_best_config, rs_min_cost, rs_i,
    calls,            \* evaluate() calls made by the baseline optimizer
    \* GeneticOptimizer: its constructor arguments and the locals of optimize()
    pop_size, generations,
    population, fitnesses, best_individual, ga_min_cost, gen, next_generation,
    eval_i,           \* position of the evaluation loop in the population
    \* a call of a Parameter or SearchSpace method from outside the optimizers
    sp_call,          \* the method and its arguments
    sp_ret,           \* whether it is pending, has returned (and what) or raised
    \* ParameterOptimizer (src/core/optimizer.py): the strength range searched
    \* and the cost calculator's cost of every index of it
    range_len, landscape,
    \* ... simulated_annealing: its arguments and locals
    sa_module, sa_initial_cost, temperature, sa_current_index, sa_best_index,
    sa_best_cost,
    sa_steps,         \* turns of the annealing loop so far
    sa_last,          \* the last turn: where the walker stood, what it probed
    sa_result,        \* the pair simulated_annealing returned
    \* ... ternary_search: its locals
    ts_left_bound, ts_right_bound, ts_last_direction, ts_iter_count, ts_best_index,
    ts_best_cost,
    ts_history,       \* the last two entries of performance_history
    ts_scan,          \* position of the closing scan
    ts_result,        \* the pair ternary_search returned
    \* the evaluator handed to the optimizer
    target_config     \* MockEvaluator.target_config; NoTarget: no MockEvaluator

evalVars == <<kind, allow_pruning, cache, global_min_cost, eval_count>>

frameVars == <<epc, gi, total_rd_loss, count, pending, group_total, first_bad>>

histVars ==
    <<call_fp, call_n, ret, outcome, started, g_loss, best_before, call_failed, measured,
      returned>>

resetHist == <<reset_seen>>

callVars == <<sp_call, sp_ret>>

spaceVars == <<idx, callVars>>

optLocals ==
    <<opc, module_order, best_global_config, min_global_cost, cost_at_start, module_i,
      local_cost, prev_cost, s_param, current_cost, direction, best_idx,
      min_cost, original_idx, trav_i, result>>

optHist ==
    <<initial_cost, start_cost, start_ok, trav_evals, round_mode, round_str_idx,
      round_str_probed, dir_trace, search_trace>>

rsLocals == <<rs_best_config, rs_min_cost, rs_i>>

randVars == <<rsLocals, calls>>

gaVars ==
    <<pop_size, generations, population, fitnesses, best_individual, ga_min_cost, gen,
      next_generation, eval_i>>

annealVars ==
    <<sa_module, sa_initial_cost, temperature, sa_current_index, sa_best_index,
      sa_best_cost, sa_steps, sa_last, sa_result>>

ternaryVars ==
    <<ts_left_bound, ts_right_bound, ts_last_direction, ts_iter_count, ts_best_index,
      ts_best_cost, ts_history, ts_scan, ts_result>>

lineVars == <<range_len, landscape, annealVars, ternaryVars>>

optVars == <<optLocals, optHist, randVars, gaVars, target_config, lineVars>>

vars == <<evalVars, frameVars, histVars, resetHist, spaceVars, optVars>>

\* ------------------------------------------------------ CostEvaluator

\* Costs one video can measure to.
ItemCosts == {FromInt(1), FromInt(5)}

\* What can happen while one video is measured.
MeasureEvents ==
    {"ok", "launch_error", "exit_error", "no_output", "unparseable",
     "nan_distortion"}

\* The events that are a failure of the measurement step.  The VMAF
\* evaluator does not read the distortion columns.
IsFailure(k, ev) == ev # "ok" /\ ~(k = "vmaf" /\ ev = "nan_distortion")

Val(c) == [st |-> "val", cost |-> c]

None == [st |-> "none", cost |-> NaN]

Exc == [st |-> "exc", cost |-> NaN]

\* X265CostEvaluator._run_single_video with _compute_normalized_cost: the
\* value a worker returns.  subprocess.run is called without check and inside
\* "except Exception", a missing csv and every exception while parsing give
\* None; distortion columns that hold no number give a nan cost (only QP and
\* Bits are tested with isna).
_run_single_video(ev, c) ==
    CASE ev = "ok" -> Val(c)
      [] ev = "nan_distortion" -> Val(NaN)
      [] OTHER -> None

\* VMAFCostEvaluator._run_single_video_vmaf: subprocess.run(check=True) is
\* guarded by "except subprocess.CalledProcessError" only, so an OSError of
\* the launch itself leaves the worker as an exception; a csv that cannot be
\* parsed falls back to the target bitrate; a vmaf score <= 0 gives None.
_run_single_video_vmaf(ev, c) ==
    CASE ev = "ok" -> Val(c)
      [] ev = "launch_error" -> Exc
      [] ev = "nan_distortion" -> Val(c)
      [] OTHER -> None

\* videos[:11] and videos[11:] of a workload of n videos.
Group(g, n) ==
    IF g = 1 THEN 1..Min(n, FirstGroupLen) ELSE (FirstGroupLen + 1)..n

\* self.cache[param_key] = cost
CacheStoreFiniteOnly(c, fp, cost) ==
    IF cost = Inf THEN c
    ELSE [f \in DOMAIN c \cup {fp} |-> IF f = fp THEN cost ELSE c[f]]

CacheStore(c, fp, cost) ==
    [f \in DOMAIN c \cup {fp} |-> IF f = fp THEN cost ELSE c[f]]

\* The comparison of evaluate() the other way round: the global best follows
\* the higher cost.
UpdateBestFlipped(g, cost) == IF Lt(g, cost) THEN cost ELSE g

\* if cost < self.global_min_cost: self.global_min_cost = cost
UpdateBest(g, cost) == IF Lt(cost, g) THEN cost ELSE g

\* The early-stop test of _parallel_calculate_rd_loss before a group.
ShouldPruneAlways(allow, cnt, total, gmin) ==
    /\ cnt > 0
    /\ gmin # Inf
    /\ Lt(MulInt(gmin, 2), DivInt(total, cnt))

ShouldPrune(allow, cnt, total, gmin) ==
    /\ allow
    /\ cnt > 0
    /\ gmin # Inf
    /\ Lt(MulInt(gmin, 2), DivInt(total, cnt))

Bump(f, fp) ==
    [x \in DOMAIN f \cup {fp} |-> IF x \in DOMAIN f
                                  THEN (IF x = fp THEN f[x] + 1 ELSE f[x])
                                  ELSE 1]

\* The configurations handed to evaluate() in the evaluator specification.
EvalConfigs ==
    {get_all_config(SetIdx(IdxSpace, "vaq", "aq-strength", i)) : i \in 0..1}

\* The locals of evaluate() and of the functions it calls, outside a call.
FrameIdle ==
    /\ epc = "idle"
    /\ gi = 1
    /\ total_rd_loss = FromInt(0)
    /\ count = 0
    /\ pending = {}
    /\ group_total = FromInt(0)
    /\ first_bad = "val"

\* A reset() that keeps the global best it found.
ResetBestKept(g) == g

\* self.global_min_cost = float("inf") (lines 58, 345).
ResetBest(g) == Inf

\* CostEvaluator.reset
Reset ==
    /\ epc = "idle"
    /\ cache' = <<>>
    /\ global_min_cost' = ResetBest(global_min_cost)
    /\ eval_count' = 0
    /\ measured' = <<>>
    /\ returned' = {}
    /\ call_fp' = {}
    /\ call_n' = 0
    /\ ret' = Inf
    /\ outcome' = "none"
    /\ started' = {}
    /\ g_loss' = <<>>
    /\ best_before' = Inf
    /\ call_failed' = FALSE
    /\ reset_seen' = IF kind = "x265" /\ allow_pruning
                     THEN [cached |-> DOMAIN cache, best |-> global_min_cost]
                     ELSE reset_seen
    /\ UNCHANGED <<kind, allow_pruning, frameVars, spaceVars, optVars>>

\* evaluate(): the fingerprint is cached (cost.py lines 73-74, 359-360).
EvalHit(cfg) ==
    /\ epc = "idle"
    /\ Fingerprint(cfg) \in DOMAIN cache
    /\ ret' = cache[Fingerprint(cfg)]
    /\ returned' = returned \cup {cache[Fingerprint(cfg)]}
    /\ outcome' = "hit"
    /\ call_fp' = Fingerprint(cfg)
    /\ call_n' = 0
    /\ started' = {}
    /\ g_loss' = <<>>
    /\ best_before' = global_min_cost
    /\ call_failed' = FALSE
    /\ UNCHANGED <<evalVars, frameVars, measured, resetHist, spaceVars, optVars>>

\* An evaluate() that counts the call before it looks at the workload.
ErrorCountFirst(n) == n + 1

\* The counter when evaluate() raises ValueError: the raise (lines 76-77,
\* 361-362) comes before self.eval_count += 1 (lines 79, 364).
ErrorCount(n) == n

\* evaluate(): not cached and video_sequences is None (lines 76-77, 361-362).
EvalNoWorkload(cfg) ==
    /\ epc = "idle"
    /\ Fingerprint(cfg) \notin DOMAIN cache
    /\ eval_count' = ErrorCount(eval_count)
    /\ outcome' = "error"
    /\ call_fp' = Fingerprint(cfg)
    /\ call_n' = 0
    /\ started' = {}
    /\ g_loss' = <<>>
    /\ best_before' = global_min_cost
    /\ call_failed' = FALSE
    /\ UNCHANGED <<kind, allow_pruning, cache, global_min_cost>>
    /\ UNCHANGED <<frameVars, ret, measured, returned, resetHist, spaceVars, optVars>>

\* evaluate(): not cached, a workload of n videos: the counter is raised and
\* the measurement begins (lines 79-81 and 131-134; 364-366 and 413-426,
\* where the VMAF evaluator submits every video at once).
EvalBegin(cfg, n) ==
    /\ epc = "idle"
    /\ Fingerprint(cfg) \notin DOMAIN cache
    /\ eval_count < MaxEvals
    /\ eval_count' = eval_count + 1
    /\ call_fp' = Fingerprint(cfg)
    /\ call_n' = n
    /\ measured' = Bump(measured, Fingerprint(cfg))
    /\ outcome' = "none"
    /\ g_loss' = <<>>
    /\ best_before' = global_min_cost
    /\ call_failed' = FALSE
    /\ IF kind = "x265"
       THEN /\ epc' = "loop"
            /\ pending' = {}
            /\ started' = {}
       ELSE /\ epc' = "vworkers"
            /\ pending' = 1..n
            /\ started' = 1..n
    /\ UNCHANGED <<gi, total_rd_loss, count, group_total, first_bad>>
    /\ UNCHANGED <<kind, allow_pruning, cache, global_min_cost, ret, returned>>
    /\ UNCHANGED <<resetHist, spaceVars, optVars>>

\* The call returns or raises: its locals are gone.
FrameEnd ==
    /\ epc' = "idle"
    /\ gi' = 1
    /\ total_rd_loss' = FromInt(0)
    /\ count' = 0
    /\ pending' = {}
    /\ group_total' = FromInt(0)
    /\ first_bad' = "val"

\* The tail of evaluate() once the measured cost is known (lines 82-90,
\* 369-376): store, update the global best, return.
Finish(cost) ==
    /\ cache' = CacheStore(cache, call_fp, cost)
    /\ global_min_cost' = UpdateBest(global_min_cost, cost)
    /\ ret' = cost
    /\ returned' = returned \cup {cost}
    /\ outcome' = "measured"
    /\ FrameEnd
    /\ UNCHANGED <<kind, allow_pruning, eval_count>>

\* An exception leaves evaluate() before the cache is written.
Raise ==
    /\ outcome' = "raised"
    /\ FrameEnd
    /\ UNCHANGED <<evalVars, ret, returned>>

\* for group in [group1, group2]: if not group: continue (lines 136-138).
SkipEmptyGroup ==
    /\ epc = "loop"
    /\ gi <= 2
    /\ Group(gi, call_n) = {}
    /\ gi' = gi + 1
    /\ UNCHANGED <<evalVars, epc, total_rd_loss, count, pending, group_total, first_bad>>
    /\ UNCHANGED <<histVars, resetHist, spaceVars, optVars>>

\* The early stop before a group (lines 141-146): return inf.
Prune ==
    /\ epc = "loop"
    /\ gi <= 2
    /\ Group(gi, call_n) # {}
    /\ ShouldPrune(allow_pruning, count, total_rd_loss, global_min_cost)
    /\ Finish(Inf)
    /\ UNCHANGED <<call_fp, call_n, started, g_loss, best_before, call_failed, measured>>
    /\ UNCHANGED <<resetHist, spaceVars, optVars>>

\* _calculate_group_loss submits one worker per video of the group
\* (lines 149, 160-165).
SubmitGroup ==
    /\ epc = "loop"
    /\ gi <= 2
    /\ Group(gi, call_n) # {}
    /\ ~ShouldPrune(allow_pruning, count, total_rd_loss, global_min_cost)
    /\ epc' = "workers"
    /\ pending' = Group(gi, call_n)
    /\ group_total' = FromInt(0)
    /\ first_bad' = "val"
    /\ started' = started \cup Group(gi, call_n)
    /\ UNCHANGED <<evalVars, gi, total_rd_loss, count>>
    /\ UNCHANGED <<call_fp, call_n, ret, outcome, g_loss, best_before, call_failed, measured>>
    /\ UNCHANGED returned
    /\ UNCHANGED <<resetHist, spaceVars, optVars>>

\* One worker completes and the as_completed loop of the calling thread
\* takes its result (lines 166-170, 428-437): a value is added to the sum
\* unless the loop has already been left; the first None or exception
\* leaves it.
WorkerDone(v, ev, c) ==
    /\ epc \in {"workers", "vworkers"}
    /\ v \in pending
    /\ pending' = pending \ {v}
    /\ LET r == IF kind = "x265" THEN _run_single_video(ev, c)
                ELSE _run_single_video_vmaf(ev, c)
       IN IF first_bad # "val"
          THEN UNCHANGED <<group_total, first_bad>>
          ELSE IF r.st = "val"
               THEN /\ group_total' = Add(group_total, r.cost)
                    /\ UNCHANGED first_bad
               ELSE /\ first_bad' = r.st
                    /\ UNCHANGED group_total
    /\ call_failed' = (call_failed \/ IsFailure(kind, ev))
    /\ UNCHANGED <<evalVars, epc, gi, total_rd_loss, count>>
    /\ UNCHANGED <<call_fp, call_n, ret, outcome, started, g_loss, best_before, measured>>
    /\ UNCHANGED returned
    /\ UNCHANGED <<resetHist, spaceVars, optVars>>

\* A with-block that is left at the first result, whoever still runs.
LeftAtFirstResult(running) == TRUE

\* The with-block of _calculate_group_loss is left (lines 161, 169-171):
\* ThreadPoolExecutor.__exit__ waits until no worker is running.
Joined(running) == running = {}

\* The executor's with-block has joined every worker of the group; a None
\* ends the call with inf (lines 150-151, 168-169), otherwise the group's
\* average is added (lines 153-154, 171).
GroupCollect ==
    /\ epc = "workers"
    /\ Joined(pending)
    /\ LET group_loss == DivInt(group_total, Cardinality(Group(gi, call_n)))
       IN CASE first_bad = "none" ->
                 /\ Finish(Inf)
                 /\ UNCHANGED g_loss
            [] first_bad = "exc" ->
                 /\ Raise
                 /\ UNCHANGED g_loss
            [] OTHER ->
                 /\ total_rd_loss' = Add(total_rd_loss, group_loss)
                 /\ count' = count + 1
                 /\ gi' = gi + 1
                 /\ epc' = "loop"
                 /\ g_loss' = Append(g_loss, group_loss)
                 /\ UNCHANGED <<evalVars, ret, outcome, returned>>
                 /\ UNCHANGED <<pending, group_total, first_bad>>
    /\ UNCHANGED <<call_fp, call_n, started, best_before, call_failed, measured>>
    /\ UNCHANGED <<resetHist, spaceVars, optVars>>

\* return total_rd_loss / count if count > 0 else inf (line 157).
LoopEnd ==
    /\ epc = "loop"
    /\ gi > 2
    /\ Finish(IF count > 0 THEN DivInt(total_rd_loss, count) ELSE Inf)
    /\ UNCHANGED <<call_fp, call_n, started, g_loss, best_before, call_failed, measured>>
    /\ UNCHANGED <<resetHist, spaceVars, optVars>>

\* _parallel_calculate_vmaf_cost once every worker is joined (lines
\* 428-446): the first None gives inf, the first exception is raised by
\* future.result(), no video gives inf, otherwise the average.
VmafCollect ==
    /\ epc = "vworkers"
    /\ pending = {}
    /\ CASE first_bad = "none" -> Finish(Inf)
         [] first_bad = "exc" -> Raise
         [] OTHER -> Finish(IF call_n = 0 THEN Inf
                            ELSE DivInt(group_total, call_n))
    /\ UNCHANGED <<call_fp, call_n, started, g_loss, best_before, call_failed, measured>>
    /\ UNCHANGED <<resetHist, spaceVars, optVars>>

InitEvaluator ==
    /\ cache = <<>>
    /\ global_min_cost = Inf
    /\ eval_count = 0
    /\ FrameIdle
    /\ call_fp = {}
    /\ call_n = 0
    /\ ret = Inf
    /\ outcome = "none"
    /\ started = {}
    /\ g_loss = <<>>
    /\ best_before = Inf
    /\ call_failed = FALSE
    /\ measured = <<>>
    /\ returned = {}
    /\ reset_seen = [cached |-> {}, best |-> Inf]

\* No search of a parameter is in progress.
NoSearch == [base |-> <<>>, last |-> <<>>]

InitOptimizerBase(pc, orders, targets) ==
    /\ opc = pc
    /\ module_order \in orders
    /\ target_config \in targets
    /\ best_global_config = get_all_config(IdxSpace)
    /\ min_global_cost = Inf
    /\ cost_at_start = Inf
    /\ module_i = 1
    /\ local_cost = Inf
    /\ prev_cost = Inf
    /\ s_param = ""
    /\ current_cost = Inf
    /\ direction = 0
    /\ best_idx = 0
    /\ min_cost = Inf
    /\ original_idx = 0
    /\ trav_i = 0
    /\ result = get_all_config(IdxSpace)
    /\ initial_cost = Inf
    /\ start_cost = Inf
    /\ start_ok = FALSE
    /\ trav_evals = <<>>
    /\ round_mode = 0
    /\ round_str_idx = 0
    /\ round_str_probed = FALSE
    /\ dir_trace = [step |-> "none"]
    /\ search_trace = NoSearch
    /\ rs_best_config = get_all_config(IdxSpace)
    /\ rs_min_cost = Inf
    /\ rs_i = 0
    /\ calls = 0
    /\ population = <<>>
    /\ fitnesses = <<>>
    /\ best_individual = <<>>
    /\ ga_min_cost = Inf
    /\ gen = 0
    /\ next_generation = <<>>
    /\ eval_i = 0

\* No simulated_annealing and no ternary_search is in progress.
NoAnnealing ==
    /\ sa_module = ""
    /\ sa_initial_cost = Inf
    /\ temperature = [lo |-> 0, hi |-> 0]
    /\ sa_current_index = 0
    /\ sa_best_index = 0
    /\ sa_best_cost = Inf
    /\ sa_steps = 0
    /\ sa_last = [step |-> "none"]
    /\ sa_result = <<>>

NoTernary ==
    /\ ts_left_bound = 0
    /\ ts_right_bound = 0
    /\ ts_last_direction = 0
    /\ ts_iter_count = 0
    /\ ts_best_index = 0
    /\ ts_best_cost = Inf
    /\ ts_history = <<>>
    /\ ts_scan = 0
    /\ ts_result = <<>>

InitOptimizerWith(pc, orders, targets) ==
    /\ InitOptimizerBase(pc, orders, targets)
    /\ range_len = 0
    /\ landscape = <<>>
    /\ NoAnnealing
    /\ NoTernary

NoGenetic == pop_size = 0 /\ generations = 0

NoCall == sp_call = [op |-> "none"] /\ sp_ret = [state |-> "none"]

InitOptimizer(pc) ==
    /\ InitOptimizerWith(pc, IF pc = "start" THEN ModuleOrders ELSE {<<>>}, {NoTarget})
    /\ NoGenetic
    /\ NoCall

InitEval ==
    /\ kind \in {"x265", "vmaf"}
    /\ allow_pruning \in BOOLEAN
    /\ InitEvaluator
    /\ idx = IdxSpace
    /\ InitOptimizer("none")

NextEval ==
    \/ Reset
    \/ \E cfg \in EvalConfigs : EvalHit(cfg)
    \/ \E cfg \in EvalConfigs : EvalNoWorkload(cfg)
    \/ \E cfg \in EvalConfigs, n \in 0..MaxVideos : EvalBegin(cfg, n)
    \/ SkipEmptyGroup
    \/ Prune
    \/ SubmitGroup
    \/ \E v \in 1..MaxVideos, ev \in MeasureEvents, c \in ItemCosts :
          WorkerDone(v, ev, c)
    \/ GroupCollect
    \/ LoopEnd
    \/ VmafCollect

SpecEval == InitEval /\ [][NextEval]_vars

\* ------------------------------------------- RelevancyGuidedOptimizer

\* self.epsilon = 0.001
epsilon == Rat(1, 1000)

\* The tolerance of the inner loop of _optimize_dual_param_module: 1e-6.
inner_tol == Rat(1, 1000000)

\* The costs evaluate() can return for a configuration: the contract's
\* finite non-negative values and the infinite sentinel.
OptCosts == {FromInt(0), FromInt(1), Inf}

\* What evaluate() can return for configuration cfg: any of OptCosts, or,
\* from a MockEvaluator, the distance to its target.  (MockEvaluator keeps no
\* cache; its cost being a function of the configuration alone, a repeated
\* call returns what the cache of Evaluate holds.)
EvaluatorCosts(cfg) ==
    IF target_config = NoTarget THEN OptCosts ELSE {MockEvaluate(cfg, target_config)}

\* A search of non-dual modules that takes the first parameter.
TargetParamFirst(m) == ParamList(m)[1]

\* optimize(), non-dual module: the parameter searched (lines 51-58).
target_param(m) ==
    IF Len(ParamList(m)) > 1 /\ "cutree-strength" \in ParamsOf(m)
    THEN "cutree-strength"
    ELSE ParamList(m)[1]

\* _optimize_dual_param_module: the parameter with fewer candidates is the
\* mode, the other the strength (lines 86-92).
mode_param(m) ==
    IF Len0(ParamList(m)[1]) < Len0(ParamList(m)[2])
    THEN ParamList(m)[1] ELSE ParamList(m)[2]

str_param(m) ==
    IF Len0(ParamList(m)[1]) < Len0(ParamList(m)[2])
    THEN ParamList(m)[2] ELSE ParamList(m)[1]

\* The comparisons that accept a probe or a step of _directional_search
\* (lines 135, 150, 170).
ImprovesFlipped(new_cost, cur) == Lt(cur, new_cost)

Improves(new_cost, cur) == Lt(new_cost, cur)

\* The comparison of _traversal_search (line 196).
TravBetterOrEqual(cost, mc) == Le(cost, mc)

TravBetter(cost, mc) == Lt(cost, mc)

\* param.idx = original_idx (lines 140, 154, 175).
NoRevert(ix, m, p, orig) == ix

Revert(ix, m, p, orig) == SetIdx(ix, m, p, orig)

\* param.idx = best_idx (line 200).
LastProbeKept(ix, m, p, best) == ix

BestApplied(ix, m, p, best) == SetIdx(ix, m, p, best)

\* return self.param_space.get_all_config() (line 76).
ReturnedStaleSnapshot(ix, snapshot) == snapshot

ReturnedConfig(ix, snapshot) == get_all_config(ix)

\* The module the pass is at.
CurModule == module_order[module_i]

evalRest ==
    <<kind, allow_pruning, frameVars, call_fp, call_n, ret, outcome, started,
      g_loss, best_before, call_failed, returned, reset_seen, target_config, callVars,
      lineVars>>

topLocals ==
    <<module_order, best_global_config, min_global_cost, cost_at_start, module_i, result>>

dualLocals == <<local_cost, prev_cost>>

dirLocals == <<s_param, current_cost, direction>>

travLocals == <<best_idx, min_cost, original_idx, trav_i>>

startHist == <<start_cost, start_ok>>

roundHist == <<round_mode, round_str_idx, round_str_probed>>

searchHist == <<initial_cost, startHist, trav_evals, round_mode, round_str_idx>>

\* The record of a _directional_search that begins with the index at i.
SearchBegins(i) ==
    [step |-> "begun", start |-> i, improved_at |-> i, left |-> "none", right |-> "none",
     walk |-> "none", failed_at |-> i]

\* The record after the evaluation made at position pc, with its how
\* and the index evaluated.
Traced(t, pc, how, i) ==
    LET side == CASE pc = "dir_left" -> "left"
                  [] pc = "dir_right" -> "right"
                  [] pc = "dir_walk" -> "walk"
        u == [t EXCEPT ![side] = how, !.step = side]
    IN IF how = "improved"
       THEN [u EXCEPT !.improved_at = i]
       ELSE [u EXCEPT !.failed_at = i]

NoEvaluate == UNCHANGED <<cache, global_min_cost, eval_count, measured>>

\* CostEvaluator.evaluate as the optimizer sees it (cost.py lines 70-90): a
\* cached fingerprint returns the stored cost; otherwise the measurement
\* gives some cost c, which is stored and lowers the global best.
Evaluate(cfg, c) ==
    IF Fingerprint(cfg) \in DOMAIN cache
    THEN /\ c = cache[Fingerprint(cfg)]
         /\ NoEvaluate
    ELSE /\ cache' = CacheStore(cache, Fingerprint(cfg), c)
         /\ global_min_cost' = UpdateBest(global_min_cost, c)
         /\ eval_count' = eval_count + 1
         /\ measured' = Bump(measured, Fingerprint(cfg))

\* Whether cost c is the evaluator's cost of the configuration of ix.
IsCostOf(c, ix) ==
    /\ Fingerprint(get_all_config(ix)) \in DOMAIN cache
    /\ cache[Fingerprint(get_all_config(ix))] = c

\* optimize(), lines 22-23: the first evaluation.
OptStart ==
    /\ opc = "start"
    /\ \E c \in EvaluatorCosts(get_all_config(idx)) :
          /\ Evaluate(get_all_config(idx), c)
          /\ min_global_cost' = c
          /\ initial_cost' = c
    /\ best_global_config' = get_all_config(idx)
    /\ opc' = "iter"
    /\ UNCHANGED <<gaVars, randVars, evalRest, idx, module_order, cost_at_start, module_i, result>>
    /\ UNCHANGED <<dualLocals, dirLocals, travLocals, startHist, trav_evals, roundHist, dir_trace,
                   search_trace>>

\* A pass begins (lines 26-28).
IterBegin ==
    /\ opc = "iter"
    /\ cost_at_start' = min_global_cost
    /\ module_i' = 1
    /\ opc' = "module"
    /\ NoEvaluate
    /\ UNCHANGED <<gaVars, randVars, evalRest, idx, module_order, best_global_config, min_global_cost, result>>
    /\ UNCHANGED <<dualLocals, dirLocals, travLocals, optHist>>

\* A dual module: _optimize_dual_param_module is entered (lines 41-45, 94).
ModuleDual ==
    /\ opc = "module"
    /\ module_i <= Len(module_order)
    /\ IsDual(CurModule)
    /\ local_cost' = min_global_cost
    /\ opc' = "dual_round"
    /\ NoEvaluate
    /\ UNCHANGED <<gaVars, randVars, evalRest, idx, topLocals, prev_cost>>
    /\ UNCHANGED <<dirLocals, travLocals, optHist>>

\* A non-dual module: _directional_search on its target parameter
\* (lines 46-62).
ModuleSingle ==
    /\ opc = "module"
    /\ module_i <= Len(module_order)
    /\ ~IsDual(CurModule)
    /\ s_param' = target_param(CurModule)
    /\ current_cost' = min_global_cost
    /\ direction' = 0
    /\ start_cost' = min_global_cost
    /\ start_ok' = IsCostOf(min_global_cost, idx)
    /\ opc' = "dir_left"
    /\ NoEvaluate
    /\ UNCHANGED <<gaVars, randVars, evalRest, idx, topLocals, dualLocals, travLocals>>
    /\ dir_trace' = SearchBegins(idx[CurModule][target_param(CurModule)])
    /\ search_trace' = [base |-> idx, last |-> idx]
    /\ UNCHANGED <<initial_cost, trav_evals, roundHist>>

\* An inner round begins with the directional search on the strength
\* parameter (lines 96-103).
DualRound ==
    /\ opc = "dual_round"
    /\ prev_cost' = local_cost
    /\ s_param' = str_param(CurModule)
    /\ current_cost' = local_cost
    /\ direction' = 0
    /\ start_cost' = local_cost
    /\ start_ok' = IsCostOf(local_cost, idx)
    /\ round_mode' = Candidates(mode_param(CurModule))[idx[CurModule][mode_param(CurModule)] + 1]
    /\ round_str_idx' = idx[CurModule][str_param(CurModule)]
    /\ round_str_probed' = FALSE
    /\ dir_trace' = SearchBegins(idx[CurModule][str_param(CurModule)])
    /\ search_trace' = [base |-> idx, last |-> idx]
    /\ opc' = "dir_left"
    /\ NoEvaluate
    /\ UNCHANGED <<gaVars, randVars, evalRest, idx, topLocals, local_cost, travLocals>>
    /\ UNCHANGED <<initial_cost, trav_evals>>

\* A probe or step of _directional_search: the index moved by step is
\* evaluated and kept if it improves, otherwise rolled back; then go to
\* position keep or position back.
Probe(step, keep, back) ==
    LET m == CurModule
        p == s_param
        ix1 == SetIdx(idx, m, p, move_index(idx, m, p, step))
    IN \E c \in EvaluatorCosts(get_all_config(ix1)) :
          /\ Evaluate(get_all_config(ix1), c)
          /\ round_str_probed' = (round_str_probed \/ IsDual(m))
          /\ search_trace' = [search_trace EXCEPT !.last = ix1]
          /\ IF Improves(c, current_cost)
             THEN /\ direction' = step
                  /\ current_cost' = c
                  /\ idx' = ix1
                  /\ opc' = keep
                  /\ dir_trace' = Traced(dir_trace, opc, "improved", ix1[m][p])
             ELSE /\ idx' = Revert(ix1, m, p, idx[m][p])
                  /\ opc' = back
                  /\ dir_trace' = Traced(dir_trace, opc, "failed", ix1[m][p])
                  /\ UNCHANGED <<direction, current_cost>>

\* _directional_search, the left probe (lines 122-140).
DirLeft ==
    /\ opc = "dir_left"
    /\ IF "left" \in get_neighbors(idx, CurModule, s_param)
       THEN Probe(-1, "dir_right", "dir_right")
       ELSE /\ opc' = "dir_right"
            /\ NoEvaluate
            /\ UNCHANGED <<idx, direction, current_cost, round_str_probed, dir_trace,
                           search_trace>>
    /\ UNCHANGED <<gaVars, randVars, evalRest, topLocals, dualLocals, s_param, travLocals, searchHist>>

\* _directional_search, the right probe (lines 143-154).
DirRight ==
    /\ opc = "dir_right"
    /\ IF direction = 0 /\ "right" \in get_neighbors(idx, CurModule, s_param)
       THEN Probe(1, "dir_walk", "dir_walk")
       ELSE /\ opc' = "dir_walk"
            /\ NoEvaluate
            /\ UNCHANGED <<idx, direction, current_cost, round_str_probed, dir_trace,
                           search_trace>>
    /\ UNCHANGED <<gaVars, randVars, evalRest, topLocals, dualLocals, s_param, travLocals, searchHist>>

\* _directional_search, one turn of the walk (lines 157-176): no direction
\* or no further candidate ends it, a step that improves is kept, a step
\* that does not is rolled back and ends it.
DirWalk ==
    /\ opc = "dir_walk"
    /\ IF direction = 0
          \/ move_index(idx, CurModule, s_param, direction) = idx[CurModule][s_param]
       THEN /\ opc' = "dir_done"
            /\ NoEvaluate
            /\ UNCHANGED <<idx, direction, current_cost, round_str_probed, dir_trace,
                           search_trace>>
       ELSE Probe(direction, "dir_walk", "dir_done")
    /\ UNCHANGED <<gaVars, randVars, evalRest, topLocals, dualLocals, s_param, travLocals, searchHist>>

\* _directional_search returns to optimize() (lines 178, 64).
DirReturnSingle ==
    /\ opc = "dir_done"
    /\ ~IsDual(CurModule)
    /\ min_global_cost' = current_cost
    /\ module_i' = module_i + 1
    /\ opc' = "module"
    /\ s_param' = ""
    /\ current_cost' = Inf
    /\ direction' = 0
    /\ dir_trace' = [step |-> "none"]
    /\ search_trace' = NoSearch
    /\ NoEvaluate
    /\ UNCHANGED <<gaVars, randVars, evalRest, idx, module_order, best_global_config, cost_at_start, result>>
    /\ UNCHANGED <<dualLocals, travLocals, searchHist, round_str_probed>>

\* _directional_search returns to _optimize_dual_param_module, which
\* enters _traversal_search on the mode parameter (lines 101-109, 184-187).
DirReturnDual ==
    /\ opc = "dir_done"
    /\ IsDual(CurModule)
    /\ local_cost' = current_cost
    /\ s_param' = mode_param(CurModule)
    /\ current_cost' = Inf
    /\ direction' = 0
    /\ best_idx' = idx[CurModule][mode_param(CurModule)]
    /\ original_idx' = idx[CurModule][mode_param(CurModule)]
    /\ min_cost' = current_cost
    /\ trav_i' = 0
    /\ start_cost' = current_cost
    /\ start_ok' = IsCostOf(current_cost, idx)
    /\ trav_evals' = [i \in 0..(Len0(mode_param(CurModule)) - 1) |-> 0]
    /\ opc' = "trav"
    /\ NoEvaluate
    /\ dir_trace' = [step |-> "none"]
    /\ search_trace' = [base |-> idx, last |-> idx]
    /\ UNCHANGED <<gaVars, randVars, evalRest, idx, topLocals, prev_cost, initial_cost, roundHist>>

\* _traversal_search, one turn of the loop (lines 189-198).
TravStep ==
    /\ opc = "trav"
    /\ trav_i < Len0(s_param)
    /\ IF trav_i = original_idx
       THEN /\ NoEvaluate
            /\ UNCHANGED <<idx, min_cost, best_idx, trav_evals, search_trace>>
       ELSE \E c \in EvaluatorCosts(get_all_config(SetIdx(idx, CurModule, s_param, trav_i))) :
               /\ idx' = SetIdx(idx, CurModule, s_param, trav_i)
               /\ Evaluate(get_all_config(idx'), c)
               /\ trav_evals' = [trav_evals EXCEPT ![trav_i] = @ + 1]
               /\ search_trace' = [search_trace EXCEPT !.last = idx']
               /\ IF TravBetter(c, min_cost)
                  THEN min_cost' = c /\ best_idx' = trav_i
                  ELSE UNCHANGED <<min_cost, best_idx>>
    /\ trav_i' = trav_i + 1
    /\ UNCHANGED <<gaVars, randVars, evalRest, opc, topLocals, dualLocals, dirLocals, original_idx>>
    /\ UNCHANGED <<initial_cost, startHist, roundHist, dir_trace>>

\* _traversal_search ends: param.idx = best_idx (lines 200-201).
TravEnd ==
    /\ opc = "trav"
    /\ trav_i = Len0(s_param)
    /\ idx' = BestApplied(idx, CurModule, s_param, best_idx)
    /\ opc' = "trav_done"
    /\ search_trace' = NoSearch
    /\ NoEvaluate
    /\ UNCHANGED <<gaVars, randVars, evalRest, topLocals, dualLocals, dirLocals, travLocals>>
    /\ UNCHANGED <<searchHist, round_str_probed, dir_trace>>

TravClear ==
    /\ s_param' = ""
    /\ best_idx' = 0
    /\ min_cost' = Inf
    /\ original_idx' = 0
    /\ trav_i' = 0

\* The inner round changed the cost by less than 1e-6: the module is done
\* (lines 107-114, 64).
DualExit ==
    /\ opc = "trav_done"
    /\ Lt(AbsF(Sub(prev_cost, min_cost)), inner_tol)
    /\ min_global_cost' = min_cost
    /\ module_i' = module_i + 1
    /\ local_cost' = Inf
    /\ prev_cost' = Inf
    /\ TravClear
    /\ opc' = "module"
    /\ NoEvaluate
    /\ UNCHANGED <<gaVars, randVars, evalRest, idx, module_order, best_global_config, cost_at_start, result>>
    /\ UNCHANGED <<current_cost, direction, optHist>>

\* Otherwise another inner round (lines 111, 96).
DualRepeat ==
    /\ opc = "trav_done"
    /\ ~Lt(AbsF(Sub(prev_cost, min_cost)), inner_tol)
    /\ local_cost' = min_cost
    /\ TravClear
    /\ opc' = "dual_round"
    /\ NoEvaluate
    /\ UNCHANGED <<gaVars, randVars, evalRest, idx, topLocals, prev_cost>>
    /\ UNCHANGED <<current_cost, direction, optHist>>

\* The pass is over and lowered the cost by less than epsilon: optimize()
\* returns (lines 67-76).
OptReturn ==
    /\ opc = "module"
    /\ module_i > Len(module_order)
    /\ Lt(Sub(cost_at_start, min_global_cost), epsilon)
    /\ result' = ReturnedConfig(idx, best_global_config)
    /\ opc' = "done"
    /\ NoEvaluate
    /\ UNCHANGED <<gaVars, randVars, evalRest, idx, module_order, best_global_config, min_global_cost, cost_at_start, module_i>>
    /\ UNCHANGED <<dualLocals, dirLocals, travLocals, optHist>>

\* Otherwise another pass (lines 72, 26).
OptRepeat ==
    /\ opc = "module"
    /\ module_i > Len(module_order)
    /\ ~Lt(Sub(cost_at_start, min_global_cost), epsilon)
    /\ opc' = "iter"
    /\ NoEvaluate
    /\ UNCHANGED <<gaVars, randVars, evalRest, idx, topLocals>>
    /\ UNCHANGED <<dualLocals, dirLocals, travLocals, optHist>>

InitOpt ==
    /\ kind = "x265"
    /\ allow_pruning = TRUE
    /\ InitEvaluator
    /\ idx = IdxSpace
    /\ InitOptimizer("start")

NextOpt ==
    \/ OptStart
    \/ IterBegin
    \/ ModuleDual
    \/ ModuleSingle
    \/ DualRound
    \/ DirLeft
    \/ DirRight
    \/ DirWalk
    \/ DirReturnSingle
    \/ DirReturnDual
    \/ TravStep
    \/ TravEnd
    \/ DualExit
    \/ DualRepeat
    \/ OptReturn
    \/ OptRepeat

SpecOpt == InitOpt /\ [][NextOpt]_vars

\* optimize() is one sequential thread: a step that can be taken is taken.
SpecOptFair == SpecOpt /\ WF_vars(NextOpt)

\* optimize() over the dual module alone (module_order = ["vaq"]).
InitDual ==
    /\ kind = "x265"
    /\ allow_pruning = TRUE
    /\ InitEvaluator
    /\ idx = IdxSpace
    /\ InitOptimizerWith("start", {<<"vaq">>}, {NoTarget})
    /\ NoGenetic
    /\ NoCall

NextDual ==
    \/ OptStart
    \/ IterBegin
    \/ ModuleDual
    \/ DualRound
    \/ DirLeft
    \/ DirRight
    \/ DirWalk
    \/ DirReturnDual
    \/ TravStep
    \/ TravEnd
    \/ DualExit
    \/ DualRepeat
    \/ OptReturn
    \/ OptRepeat

SpecDual == InitDual /\ [][NextDual]_vars /\ WF_vars(NextDual)

\* The optimizer of test_convergence_to_target: a MockEvaluator with some
\* target, the space at its defaults, every module of the space in the
\* order.
FullOrder == <<"qcomp", "vaq", "cutree">>

Targets == {get_all_config(ix) : ix \in AllIdx}

InitConv ==
    /\ kind = "x265"
    /\ allow_pruning = TRUE
    /\ InitEvaluator
    /\ idx = IdxSpace
    /\ InitOptimizerWith("start", {FullOrder}, Targets)
    /\ NoGenetic
    /\ NoCall

SpecConv == InitConv /\ [][NextOpt]_vars

\* ---------------------------------------------------------- RandomOptimizer

\* SearchSpace.random_sample (params.py lines 43-45, 64-66, 169-172): every
\* parameter draws an index with random.randint.  The draws followed here are
\* those that land on the default index for the modules other than vaq.
random_sample ==
    { SetIdx(SetIdx(IdxSpace, "vaq", "aq-mode", a), "vaq", "aq-strength", b) :
          a \in 0..(Len0("aq-mode") - 1), b \in 0..(Len0("aq-strength") - 1) }

randRest == <<gaVars, evalRest, optHist, module_order, best_global_config, min_global_cost,
              cost_at_start, module_i, dualLocals, dirLocals, travLocals>>

\* random_search.py lines 24-28: the default configuration is evaluated.
RandStart ==
    /\ opc = "rs_start"
    /\ \E c \in OptCosts :
          /\ Evaluate(get_all_config(idx), c)
          /\ rs_min_cost' = c
    /\ rs_best_config' = get_all_config(idx)
    /\ rs_i' = 1
    /\ calls' = calls + 1
    /\ opc' = "rs_loop"
    /\ UNCHANGED <<randRest, idx, result>>

\* random_search.py lines 30-48: one iteration of the sampling loop.
RandIter ==
    /\ opc = "rs_loop"
    /\ rs_i <= MaxRandEvals
    /\ \E ix \in random_sample, c \in OptCosts :
          /\ idx' = ix
          /\ Evaluate(get_all_config(ix), c)
          /\ IF Lt(c, rs_min_cost)
             THEN /\ rs_min_cost' = c
                  /\ rs_best_config' = get_all_config(ix)
             ELSE UNCHANGED <<rs_min_cost, rs_best_config>>
    /\ rs_i' = rs_i + 1
    /\ calls' = calls + 1
    /\ UNCHANGED <<randRest, opc, result>>

\* random_search.py lines 50-51: return best_config.
RandReturn ==
    /\ opc = "rs_loop"
    /\ rs_i > MaxRandEvals
    /\ result' = rs_best_config
    /\ opc' = "rs_done"
    /\ UNCHANGED <<randRest, evalVars, measured, idx, randVars>>

InitRand ==
    /\ kind = "x265"
    /\ allow_pruning = TRUE
    /\ InitEvaluator
    /\ idx = IdxSpace
    /\ InitOptimizer("rs_start")

NextRand ==
    \/ RandStart
    \/ RandIter
    \/ RandReturn

SpecRand == InitRand /\ [][NextRand]_vars

\* --------------------------------------------------------- GeneticOptimizer

\* Largest pop_size and generations a GeneticOptimizer is constructed with.
MaxPop == 3
MaxGens == 1

\* python's None where optimize() holds no individual.
NoIndividual == <<>>

\* genetic.py line 126: the default k of _tournament_select.
TournamentK == 3

\* The parameter the random draws of the genetic run land on: the draws
\* followed are those that keep every other parameter.
DrawnModule == "vaq"
DrawnParam == "aq-mode"

\* SearchSpace.random_sample as _init_population calls it (params.py lines
\* 169-172), restricted to those draws.
ga_sample == { SetIdx(IdxSpace, DrawnModule, DrawnParam, a) : a \in 0..(Len0(DrawnParam) - 1) }

\* random.sample(range(n), k): the orders in which k distinct positions of a
\* population of n can be drawn; empty when k > n, where python raises
\* ValueError.
Samples(n, k) ==
    { o \in [1..k -> 1..n] : \A a, b \in 1..k : a # b => o[a] # o[b] }

\* _tournament_select, lines 129-135: the loop over the drawn positions.
\* Position 0 stands for best_idx = -1.
RECURSIVE TournamentLoop(_, _, _)
TournamentLoop(order, fit, k) ==
    IF k = 0 THEN [i |-> 0, f |-> Inf]
    ELSE LET prev == TournamentLoop(order, fit, k - 1) IN
         IF Lt(fit[order[k]], prev.f)
         THEN [i |-> order[k], f |-> fit[order[k]]]
         ELSE prev

\* _tournament_select, line 137: population[best_idx]; population[-1] is the
\* last individual.
_tournament_select(pop, fit, order) ==
    LET b == TournamentLoop(order, fit, Len(order)).i IN
    IF b = 0 THEN pop[Len(pop)] ELSE pop[b]

\* The individuals a tournament over the population can return.
Tournaments(pop, fit) ==
    { _tournament_select(pop, fit, o) : o \in Samples(Len(pop), TournamentK) }

\* _crossover, lines 144-156: without crossing, a copy of p1; otherwise
\* from[m] says which parent module m is taken from.
CrossoverChoices == [ModuleNames -> {1, 2}]

_crossover(p1, p2, crossed, from) ==
    IF ~crossed THEN p1
    ELSE [m \in ModuleNames |-> IF from[m] = 1 THEN p1[m] ELSE p2[m]]

\* The children _crossover can return for parents p1 and p2.
Crossovers(p1, p2) ==
    { _crossover(p1, p2, crossed, from) : crossed \in BOOLEAN, from \in CrossoverChoices }

\* _mutate, lines 163-196: without mutation, the individual; otherwise j is
\* the index Parameter.random_sample drew for the parameter.
MutationChoices == 0..(Len0(DrawnParam) - 1)

\* A mutation that resets every parameter of the module.
MutateModule(individual, m, p, j) ==
    [individual EXCEPT ![m] = [q \in ParamsOf(m) |->
                                  Candidates(q)[Min(j, Len0(q) - 1) + 1]]]

\* lines 167-195: the deep copy of the individual, with parameter p of
\* module m set to the value Parameter.random_sample drew (index j).
MutateAt(individual, m, p, j) ==
    [individual EXCEPT ![m][p] = Candidates(p)[j + 1]]

_mutate(individual, mutated, j) ==
    IF ~mutated THEN individual
    ELSE MutateAt(individual, DrawnModule, DrawnParam, j)

\* A best individual that is the first one evaluated.
GABestKeepsFirst(c, ind) ==
    /\ ga_min_cost' = IF ga_min_cost = Inf THEN c ELSE ga_min_cost
    /\ best_individual' = IF ga_min_cost = Inf THEN ind ELSE best_individual

\* lines 58-60 and 100-102: the best individual and its cost after cost c of
\* individual ind.
GABest(c, ind) ==
    /\ ga_min_cost' = IF Lt(c, ga_min_cost) THEN c ELSE ga_min_cost
    /\ best_individual' = IF Lt(c, ga_min_cost) THEN ind ELSE best_individual

gaRest == <<rsLocals, evalRest, optHist, module_order, best_global_config, min_global_cost,
            cost_at_start, module_i, dualLocals, dirLocals, travLocals>>

\* lines 46-48 and 112-124: _init_population resets the space, takes the
\* default configuration and pop_size - 1 random samples.
GAInitPopulation ==
    /\ opc = "ga_start"
    /\ \E draws \in [1..(pop_size - 1) -> ga_sample] :
          /\ population' = <<get_all_config(IdxSpace)>>
                               \o [i \in 1..(pop_size - 1) |-> get_all_config(draws[i])]
          /\ idx' = IF pop_size > 1 THEN draws[pop_size - 1] ELSE IdxSpace
    /\ best_individual' = NoIndividual
    /\ ga_min_cost' = Inf
    /\ fitnesses' = <<>>
    /\ eval_i' = 1
    /\ opc' = "ga_init_eval"
    /\ UNCHANGED <<gaRest, evalVars, measured, calls, pop_size, generations, gen,
                   next_generation, result>>

\* lines 53-60 and 89-102: one iteration of an evaluation loop.  evaluate()
\* reads params.items() first (cost.py line 71), which raises on None.
GAEvaluate ==
    /\ opc \in {"ga_init_eval", "ga_eval"}
    /\ eval_i <= Len(population)
    /\ calls' = calls + 1
    /\ IF population[eval_i] = NoIndividual
       THEN /\ opc' = "ga_raised"
            /\ UNCHANGED <<evalVars, measured, fitnesses, best_individual, ga_min_cost,
                           eval_i>>
       ELSE /\ \E c \in EvaluatorCosts(population[eval_i]) :
                  /\ Evaluate(population[eval_i], c)
                  /\ fitnesses' = Append(fitnesses, c)
                  /\ GABest(c, population[eval_i])
            /\ eval_i' = eval_i + 1
            /\ UNCHANGED opc
    /\ UNCHANGED <<gaRest, idx, pop_size, generations, population, gen, next_generation,
                   result>>

\* lines 65-68: the next generation begins with the best individual.
GAGeneration ==
    /\ opc \in {"ga_init_eval", "ga_eval"}
    /\ eval_i > Len(population)
    /\ gen < generations
    /\ gen' = gen + 1
    /\ next_generation' = <<best_individual>>
    /\ opc' = "ga_breed"
    /\ UNCHANGED <<gaRest, evalVars, measured, idx, calls, pop_size, generations,
                   population, fitnesses, best_individual, ga_min_cost, eval_i, result>>

\* lines 71-81: one offspring, from two tournaments, crossover and mutation.
\* Parameter.random_sample moves the index of the space's parameter.
GAOffspring ==
    /\ opc = "ga_breed"
    /\ Len(next_generation) < pop_size
    /\ Samples(Len(population), TournamentK) # {}
    /\ \E p1, p2 \in Tournaments(population, fitnesses) :
          \E child \in Crossovers(p1, p2), mutated \in BOOLEAN, j \in MutationChoices :
             /\ next_generation' = Append(next_generation, _mutate(child, mutated, j))
             /\ idx' = IF ~mutated THEN idx ELSE SetIdx(idx, DrawnModule, DrawnParam, j)
    /\ UNCHANGED <<gaRest, evalVars, measured, calls, opc, pop_size, generations,
                   population, fitnesses, best_individual, ga_min_cost, gen, eval_i,
                   result>>

\* line 128: random.sample raises ValueError when the population is smaller
\* than k.
GASampleError ==
    /\ opc = "ga_breed"
    /\ Len(next_generation) < pop_size
    /\ Samples(Len(population), TournamentK) = {}
    /\ opc' = "ga_raised"
    /\ UNCHANGED <<gaRest, evalVars, measured, idx, calls, pop_size, generations,
                   population, fitnesses, best_individual, ga_min_cost, gen,
                   next_generation, eval_i, result>>

\* lines 83-87: the next generation replaces the population.
GAReplace ==
    /\ opc = "ga_breed"
    /\ Len(next_generation) >= pop_size
    /\ population' = next_generation
    /\ fitnesses' = <<>>
    /\ eval_i' = 1
    /\ opc' = "ga_eval"
    /\ UNCHANGED <<gaRest, evalVars, measured, idx, calls, pop_size, generations,
                   best_individual, ga_min_cost, gen, next_generation, result>>

\* lines 109-110: return best_individual.
GAReturn ==
    /\ opc \in {"ga_init_eval", "ga_eval"}
    /\ eval_i > Len(population)
    /\ gen >= generations
    /\ result' = best_individual
    /\ opc' = "ga_done"
    /\ UNCHANGED <<gaRest, evalVars, measured, idx, calls, gaVars>>

InitGA ==
    /\ kind = "x265"
    /\ allow_pruning = TRUE
    /\ InitEvaluator
    /\ idx = IdxSpace
    /\ InitOptimizerWith("ga_start", {<<>>}, {NoTarget})
    /\ pop_size \in 1..MaxPop
    /\ generations \in 1..MaxGens
    /\ NoCall

NextGA ==
    \/ GAInitPopulation
    \/ GAEvaluate
    \/ GAGeneration
    \/ GAOffspring
    \/ GASampleError
    \/ GAReplace
    \/ GAReturn

SpecGA == InitGA /\ [][NextGA]_vars

\* _crossover and _mutate on their own: two parents that differ in several
\* modules, then line 74 and line 77 on them.
BreedIdx ==
    { [IdxSpace EXCEPT !["vaq"]["aq-mode"] = a, !["qcomp"]["qcomp"] = b,
                       !["cutree"]["cutree-strength"] = c] :
          a \in 0..(Len0("aq-mode") - 1), b \in {0, DefaultIdx("qcomp")},
          c \in {0, DefaultIdx("cutree-strength")} }

\* lines 71-72: the two parents (held in population).
BreedSelect ==
    /\ opc = "breed_select"
    /\ \E i1, i2 \in BreedIdx : population' = <<get_all_config(i1), get_all_config(i2)>>
    /\ opc' = "breed_cross"
    /\ UNCHANGED <<gaRest, evalVars, measured, idx, calls, pop_size, generations,
                   fitnesses, best_individual, ga_min_cost, gen, next_generation, eval_i,
                   result>>

\* line 74: offspring = self._crossover(p1, p2).
BreedCross ==
    /\ opc = "breed_cross"
    /\ \E child \in Crossovers(population[1], population[2]) :
          next_generation' = <<child>>
    /\ opc' = "breed_mutate"
    /\ UNCHANGED <<gaRest, evalVars, measured, idx, calls, pop_size, generations,
                   population, fitnesses, best_individual, ga_min_cost, gen, eval_i,
                   result>>

\* line 77: offspring = self._mutate(offspring), with any module and any of
\* its parameters drawn (lines 178, 185); the individual given is held in
\* next_generation[1] and the one returned is appended.
BreedMutate ==
    /\ opc = "breed_mutate"
    /\ \/ /\ next_generation' = Append(next_generation, next_generation[1])
          /\ UNCHANGED idx
       \/ \E m \in ModuleNames : \E p \in ParamsOf(m) : \E j \in 0..(Len0(p) - 1) :
             /\ next_generation' =
                    Append(next_generation, MutateAt(next_generation[1], m, p, j))
             /\ idx' = SetIdx(idx, m, p, j)
    /\ opc' = "breed_done"
    /\ UNCHANGED <<gaRest, evalVars, measured, calls, pop_size, generations,
                   population, fitnesses, best_individual, ga_min_cost, gen, eval_i,
                   result>>

InitBreed ==
    /\ kind = "x265"
    /\ allow_pruning = TRUE
    /\ InitEvaluator
    /\ idx = IdxSpace
    /\ InitOptimizerWith("breed_select", {<<>>}, {NoTarget})
    /\ NoGenetic
    /\ NoCall

NextBreed ==
    \/ BreedSelect
    \/ BreedCross
    \/ BreedMutate

SpecBreed == InitBreed /\ [][NextBreed]_vars

\* ------------------------------------------- Parameter and SearchSpace calls

\* The tolerance of set_value, 1e-9, in ticks of 1e-10.
Tolerance == 10

\* A number handed to set_value: base + e * 1e-10, base a rational and e a
\* few ticks, so that numbers of different bases differ by more than any
\* number of ticks.
Value(base, e) == [base |-> base, e |-> e]

\* Parameter.candidates[i] as a number of the source.
CandValue(p, i) == Rat(Candidates(p)[i + 1], Scale(p))

\* abs(x - value) for x = candidates[i]: the rational part and the ticks.
Distance(p, i, v) ==
    LET D == Sub(CandValue(p, i), v.base)
    IN [d |-> AbsF(D),
        t |-> IF D = FromInt(0) THEN Abs(v.e)
              ELSE IF Lt(FromInt(0), D) THEN 0 - v.e ELSE v.e]

DistLt(a, b) == Lt(a.d, b.d) \/ (a.d = b.d /\ a.t < b.t)

\* min(self.candidates, key=lambda x: abs(x - value)): the first candidate
\* of least distance (params.py line 22).
Closest(p, v) ==
    CHOOSE i \in 0..(Len0(p) - 1) :
        /\ \A j \in 0..(i - 1) : DistLt(Distance(p, i, v), Distance(p, j, v))
        /\ \A j \in (i + 1)..(Len0(p) - 1) : ~DistLt(Distance(p, j, v), Distance(p, i, v))

\* value in self.candidates, and self.candidates.index(value) (lines 18-19).
InCandidates(p, v) == v.e = 0 /\ \E i \in 0..(Len0(p) - 1) : CandValue(p, i) = v.base

IndexOfOneBased(p, v) ==
    CHOOSE i \in 1..Len0(p) :
        /\ CandValue(p, i - 1) = v.base
        /\ \A j \in 1..(i - 1) : CandValue(p, j - 1) # v.base

IndexOf(p, v) ==
    CHOOSE i \in 0..(Len0(p) - 1) :
        /\ CandValue(p, i) = v.base
        /\ \A j \in 0..(i - 1) : CandValue(p, j) # v.base

\* Parameter.set_value (lines 17-28) on parameter p of module m: whether it
\* raised ValueError, and the indices afterwards.
SetValueClamped(ix, m, p, v) ==
    IF InCandidates(p, v)
    THEN [raised |-> FALSE, idx |-> SetIdx(ix, m, p, IndexOf(p, v))]
    ELSE [raised |-> FALSE, idx |-> SetIdx(ix, m, p, Closest(p, v))]

set_value(ix, m, p, v) ==
    IF InCandidates(p, v)
    THEN [raised |-> FALSE, idx |-> SetIdx(ix, m, p, IndexOf(p, v))]
    ELSE LET c == Closest(p, v)
             dist == Distance(p, c, v)
         IN IF dist.d = FromInt(0) /\ dist.t < Tolerance
            THEN [raised |-> FALSE, idx |-> SetIdx(ix, m, p, c)]
            ELSE [raised |-> TRUE, idx |-> ix]

\* A key of a flat dict is the sequence of its pieces, "/" being a piece of
\* its own: "vaq/aq-mode" is <<"vaq", "/", "aq-mode">>.
Slash == "/"

\* "/" in key (line 176).
HasSlash(key) == \E k \in 1..Len(key) : key[k] = Slash

\* key.split("/", 1) (line 178): what stands before the first slash and what
\* stands after it.
Split(key) ==
    LET k == CHOOSE k \in 1..Len(key) :
                 key[k] = Slash /\ \A j \in 1..(k - 1) : key[j] # Slash
    IN <<SubSeq(key, 1, k - 1), SubSeq(key, k + 1, Len(key))>>

\* SearchSpace.update_from_flat_dict (lines 174-182) from entry k on, every
\* entry a pair of key and value: whether set_value raised, and the indices
\* afterwards.
RECURSIVE UpdateStrictKeys(_, _, _)
UpdateStrictKeys(ix, flat, k) ==
    IF k > Len(flat) THEN [raised |-> FALSE, idx |-> ix]
    ELSE LET key == flat[k][1]
             value == flat[k][2]
         IN IF ~HasSlash(key) THEN [raised |-> TRUE, idx |-> ix]
            ELSE LET name == Split(key)
                 IN IF \E m \in ModuleNames : name[1] = <<m>>
                    THEN LET m == CHOOSE m \in ModuleNames : name[1] = <<m>>
                         IN IF \E p \in ParamsOf(m) : name[2] = <<p>>
                            THEN LET p == CHOOSE p \in ParamsOf(m) : name[2] = <<p>>
                                     r == set_value(ix, m, p, value)
                                 IN IF r.raised THEN r
                                    ELSE UpdateStrictKeys(r.idx, flat, k + 1)
                            ELSE [raised |-> TRUE, idx |-> ix]
                    ELSE [raised |-> TRUE, idx |-> ix]

RECURSIVE update_from_flat_dict(_, _, _)
update_from_flat_dict(ix, flat, k) ==
    IF k > Len(flat) THEN [raised |-> FALSE, idx |-> ix]
    ELSE LET key == flat[k][1]
             value == flat[k][2]
         IN IF ~HasSlash(key) THEN update_from_flat_dict(ix, flat, k + 1)
            ELSE LET name == Split(key)
                 IN IF \E m \in ModuleNames : name[1] = <<m>>
                    THEN LET m == CHOOSE m \in ModuleNames : name[1] = <<m>>
                         IN IF \E p \in ParamsOf(m) : name[2] = <<p>>
                            THEN LET p == CHOOSE p \in ParamsOf(m) : name[2] = <<p>>
                                     r == set_value(ix, m, p, value)
                                 IN IF r.raised THEN r
                                    ELSE update_from_flat_dict(r.idx, flat, k + 1)
                            ELSE update_from_flat_dict(ix, flat, k + 1)
                    ELSE update_from_flat_dict(ix, flat, k + 1)

\* Everything but the space and the call.
spaceRest == <<evalVars, frameVars, histVars, resetHist, optVars>>

Pending(op) == sp_call.op = op /\ sp_ret.state = "pending"

\* Parameter.move_index (lines 38-41).
MoveIndex ==
    /\ Pending("move_index")
    /\ LET new == move_index(idx, sp_call.m, sp_call.p, sp_call.step)
       IN /\ idx' = SetIdx(idx, sp_call.m, sp_call.p, new)
          /\ sp_ret' = [state |-> "returned", value |-> Candidates(sp_call.p)[new + 1]]
    /\ UNCHANGED <<sp_call, spaceRest>>

\* SearchSpace.update_module_param (lines 166-167), so Parameter.set_value.
SetValue ==
    /\ Pending("set_value")
    /\ LET r == set_value(idx, sp_call.m, sp_call.p, sp_call.v)
       IN /\ idx' = r.idx
          /\ sp_ret' = [state |-> IF r.raised THEN "raised" ELSE "returned"]
    /\ UNCHANGED <<sp_call, spaceRest>>

\* SearchSpace.random_sample (lines 169-172, 64-66, 43-45): every parameter
\* draws an index in range.
SpaceRandomSample ==
    /\ Pending("random_sample")
    /\ \E ix \in AllIdx :
          /\ idx' = ix
          /\ sp_ret' = [state |-> "returned", value |-> get_all_config(ix)]
    /\ UNCHANGED <<sp_call, spaceRest>>

\* SearchSpace.update_from_flat_dict (lines 174-182).
UpdateFromFlatDict ==
    /\ Pending("update_from_flat_dict")
    /\ LET r == update_from_flat_dict(idx, sp_call.flat, 1)
       IN /\ idx' = r.idx
          /\ sp_ret' = [state |-> IF r.raised THEN "raised" ELSE "returned"]
    /\ UNCHANGED <<sp_call, spaceRest>>

\* SearchSpace.reset (lines 87-89): the default space is built again.
SpaceReset ==
    /\ Pending("reset")
    /\ idx' = IdxSpace
    /\ sp_ret' = [state |-> "returned"]
    /\ UNCHANGED <<sp_call, spaceRest>>

\* param.idx = i of _traversal_search (algorithms.py lines 189-193), i from
\* range(len(param.candidates)).
AssignIdx ==
    /\ Pending("assign")
    /\ idx' = SetIdx(idx, sp_call.m, sp_call.p, sp_call.i)
    /\ sp_ret' = [state |-> "returned"]
    /\ UNCHANGED <<sp_call, spaceRest>>

NextCall ==
    \/ MoveIndex
    \/ SetValue
    \/ SpaceRandomSample
    \/ UpdateFromFlatDict
    \/ SpaceReset
    \/ AssignIdx

\* The inputs: steps of move_index, ...
Steps == {-2, -1, 0, 1, 2}

\* ... ticks around a base, inside and outside the tolerance, ...
Ticks == {-20, -5, 0, 5, 20}

\* ... bases for set_value on parameter p: its candidates, one below and
\* one above them all, and one between the first two, ...
Bases(p) ==
    {CandValue(p, i) : i \in 0..(Len0(p) - 1)}
        \cup {Rat(Candidates(p)[1] - 1, Scale(p)),
              Rat(Candidates(p)[Len0(p)] + 3, Scale(p)),
              Rat(3 * Candidates(p)[1] + 1, 3 * Scale(p))}

ModuleParams == {<<m, p>> : m \in ModuleNames, p \in AllParams} \cap
                    {mp \in ModuleNames \X AllParams : mp[2] \in ParamsOf(mp[1])}

\* ... and entries of a flat dict: keys that name a parameter, with a
\* candidate or with another number, and keys that name none.
MaxFlat == 2

FlatEntries ==
    {<<<<"vaq", Slash, "aq-mode">>, Value(FromInt(0), 0)>>,
     <<<<"vaq", Slash, "aq-mode">>, Value(FromInt(7), 0)>>,
     <<<<"cutree", Slash, "cutree-strength">>, Value(CandValue("cutree-strength", 0), 5)>>,
     <<<<"qcomp", Slash, "qcomp">>, Value(CandValue("qcomp", 0), 0)>>,
     <<<<"aq-mode">>, Value(FromInt(7), 0)>>,
     <<<<"psyrdo", Slash, "aq-mode">>, Value(FromInt(7), 0)>>,
     <<<<"vaq", Slash, "psy-rd">>, Value(FromInt(7), 0)>>,
     <<<<"vaq", Slash, "aq-mode", Slash, "x">>, Value(FromInt(0), 0)>>}

\* A dict holds a key once.
FlatDicts ==
    UNION { { f \in [1..n -> FlatEntries] :
                  \A a, b \in 1..n : a # b => f[a][1] # f[b][1] } : n \in 0..MaxFlat }

MoveCalls ==
    { [op |-> "move_index", m |-> mp[1], p |-> mp[2], step |-> st] :
          mp \in ModuleParams, st \in Steps }

SetValueCalls ==
    UNION { { [op |-> "set_value", m |-> mp[1], p |-> mp[2], v |-> Value(b, e)] :
                  b \in Bases(mp[2]), e \in Ticks } : mp \in ModuleParams }

FlatCalls == { [op |-> "update_from_flat_dict", flat |-> f] : f \in FlatDicts }

AssignCalls ==
    UNION { { [op |-> "assign", m |-> mp[1], p |-> mp[2], i |-> i] :
                  i \in 0..(Len0(mp[2]) - 1) } : mp \in ModuleParams }

Calls ==
    MoveCalls \cup SetValueCalls \cup FlatCalls \cup AssignCalls
        \cup {[op |-> "random_sample"], [op |-> "reset"]}

\* One call on any state of the space.
InitCall ==
    /\ kind = "x265"
    /\ allow_pruning = TRUE
    /\ InitEvaluator
    /\ InitOptimizerWith("none", {<<>>}, {NoTarget})
    /\ NoGenetic
    /\ idx \in AllIdx
    /\ sp_call \in Calls
    /\ sp_ret = [state |-> "pending"]

SpecCall == InitCall /\ [][NextCall]_vars

\* The calls made one after another, from the space as constructed: the
\* caller makes the next call once the last one has returned or raised.
SeqCalls ==
    { c \in Calls :
          \/ c.op \in {"move_index", "assign", "random_sample", "reset"}
          \/ c.op = "set_value" /\ c.v.e = 0
                 /\ c.v.base \in {CandValue(c.p, 0), CandValue(c.p, Len0(c.p) - 1),
                                   Rat(Candidates(c.p)[Len0(c.p)] + 3, Scale(c.p))}
          \/ c.op = "update_from_flat_dict" /\ Len(c.flat) = 1 }

Caller ==
    /\ sp_ret.state # "pending"
    /\ sp_call' \in SeqCalls
    /\ sp_ret' = [state |-> "pending"]
    /\ UNCHANGED <<idx, spaceRest>>

InitSpace ==
    /\ kind = "x265"
    /\ allow_pruning = TRUE
    /\ InitEvaluator
    /\ InitOptimizerWith("none", {<<>>}, {NoTarget})
    /\ NoGenetic
    /\ NoCall
    /\ idx = IdxSpace

NextSpace ==
    \/ Caller
    \/ NextCall

SpecSpace == InitSpace /\ [][NextSpace]_vars

\* ------------------------------ ParameterOptimizer.simulated_annealing

\* Length of the strength range handed to simulated_annealing on its own.
SaLen == 4

\* The temperature is a float; it is followed as an interval of whole
\* multiples of 1e-7 that holds it, so that a comparison the rounding could
\* decide either way has both outcomes.
TemperatureScale == 10 ^ 7

\* optimizer.py line 503: temperature = 100.
InitialTemperature == 100

\* line 504: cooling_rate = 0.95, and line 517: the threshold 0.01.
cooling_rate == <<19, 20>>

StopTemperature == TemperatureScale \div 100

\* A cooling by a tenth at every turn.
CoolByTenth(t) ==
    [lo |-> t.lo - ((t.lo + 9) \div 10), hi |-> t.hi - (t.hi \div 10)]

\* line 535: temperature *= cooling_rate.
Cool(t) ==
    LET n == cooling_rate[1]
        d == cooling_rate[2]
    IN [lo |-> t.lo - ((t.lo * (d - n) + d - 1) \div d),
        hi |-> t.hi - ((t.hi * (d - n)) \div d)]

\* line 517: temperature > 0.01 can be true, and can be false.
CanBeHot(t) == t.hi > StopTemperature

CanBeCold(t) == t.lo <= StopTemperature

\* lines 510-515: perturbation_range of the module.
perturbation_range(m) ==
    CASE m = "cutree" -> 7
      [] m = "qcomp" -> 10

\* line 521: max(0, min(len(strength_range) - 1, new_index)).
ClampIndex(i) == Max(0, Min(range_len - 1, i))

\* lines 518-521: the indices a perturbation of index i can give.
Perturbed(m, i) ==
    { ClampIndex(i + d) : d \in (0 - perturbation_range(m))..perturbation_range(m) }

\* CostCalculator.calculate_cost (cost_calculator.py lines 61-75) of the
\* current parameters with the strength at index i: the parameter table
\* makes it one cost per index.
calculate_cost(i) == landscape[i]

\* accept_new_solution (lines 539-547): random.random() < exp((best_cost -
\* new_cost) / temperature), the temperature positive.  The exponent is
\* clamped from below, so the probability is never 0; it is 1 for equal
\* costs and nan for a nan difference.
accept_new_solution(best_cost, new_cost) ==
    LET diff == Sub(best_cost, new_cost)
    IN IF diff = NaN THEN {FALSE}
       ELSE IF Lt(diff, FromInt(0)) THEN BOOLEAN
       ELSE {TRUE}

\* lines 529-533: where the walker stands after probing new_index.
Walker(cur, new_index, improved, accepted) ==
    IF ~improved /\ accepted THEN new_index ELSE cur

\* Everything but the position and the line searches.
lineRest ==
    <<evalVars, frameVars, histVars, resetHist, spaceVars, optHist, randVars, gaVars,
      target_config, topLocals, dualLocals, dirLocals, travLocals>>

\* lines 518-533: what one turn of the loop can leave, the walker at cur and
\* the best pair (bi, bc).
SaTurn(m, cur, bi, bc) ==
    UNION { LET new_cost == calculate_cost(new_index)
                improved == Lt(new_cost, bc)
            IN { [current_index |-> Walker(cur, new_index, improved, accepted),
                  best_index |-> IF improved THEN new_index ELSE bi,
                  best_cost |-> IF improved THEN new_cost ELSE bc,
                  improved |-> improved] :
                     accepted \in accept_new_solution(bc, new_cost) } :
            new_index \in Perturbed(m, cur) }

\* lines 517-535: one turn of the annealing loop.
SaStep ==
    /\ opc = "sa_loop"
    /\ CanBeHot(temperature)
    /\ \E t \in SaTurn(sa_module, sa_current_index, sa_best_index, sa_best_cost) :
          /\ sa_current_index' = t.current_index
          /\ sa_best_index' = t.best_index
          /\ sa_best_cost' = t.best_cost
          /\ sa_last' = [step |-> "probe", improved |-> t.improved]
    /\ temperature' = Cool(temperature)
    /\ sa_steps' = sa_steps + 1
    /\ UNCHANGED <<lineRest, opc, range_len, landscape, sa_module, sa_initial_cost,
                   sa_result, ternaryVars>>

\* line 537: return best_index, best_cost.
SaReturn ==
    /\ opc = "sa_loop"
    /\ CanBeCold(temperature)
    /\ sa_result' = <<sa_best_index, sa_best_cost>>
    /\ opc' = "sa_done"
    /\ UNCHANGED <<lineRest, range_len, landscape, sa_module, sa_initial_cost,
                   temperature, sa_current_index, sa_best_index, sa_best_cost, sa_steps,
                   sa_last, ternaryVars>>

\* The cost landscapes followed over a range of n indices: valleys, and
\* costs that alternate.
Landscapes(n) ==
    { [i \in 0..(n - 1) |-> FromInt(Abs(i - t))] : t \in 0..(n - 1) }
        \cup { [i \in 0..(n - 1) |-> FromInt((i + a) % 2)] : a \in {0, 1} }

\* The costs handed over as initial_cost (CostCalculator.get_optimal_loss,
\* lines 66 and 182).
SeedCosts == {FromInt(1), FromInt(2)}

\* search_cutree and search_qcomp (lines 62-77, 178-191) call
\* simulated_annealing.
InitAnneal ==
    /\ kind = "x265"
    /\ allow_pruning = TRUE
    /\ InitEvaluator
    /\ InitOptimizerBase("sa_loop", {<<>>}, {NoTarget})
    /\ NoGenetic
    /\ NoCall
    /\ idx = IdxSpace
    /\ range_len = SaLen
    /\ landscape \in Landscapes(SaLen)
    /\ sa_module \in {"cutree", "qcomp"}
    /\ sa_initial_cost \in SeedCosts
    /\ temperature = [lo |-> InitialTemperature * TemperatureScale,
                      hi |-> InitialTemperature * TemperatureScale]
    /\ sa_current_index \in 0..(SaLen - 1)
    /\ sa_best_index = sa_current_index
    /\ sa_best_cost = sa_initial_cost
    /\ sa_steps = 0
    /\ sa_last = [step |-> "none"]
    /\ sa_result = <<>>
    /\ NoTernary

NextAnneal ==
    \/ SaStep
    \/ SaReturn

SpecAnneal == InitAnneal /\ [][NextAnneal]_vars

\* ------------------------------------ ParameterOptimizer.ternary_search

\* Length of the strength range handed to ternary_search.
TsLen == 8

\* lines 517-535: the states <<current_index, best_index, best_cost>> the
\* loop can be in one turn after a state of S.
SaImage(m, S) ==
    UNION { { <<t.current_index, t.best_index, t.best_cost>> :
                  t \in SaTurn(m, s[1], s[2], s[3]) } : s \in S }

\* lines 517-535: the states the loop can end in, from the states of S at
\* temperature t; a set the next turn leaves as it is stays for all the
\* turns that follow.
RECURSIVE SaReach(_, _, _)
SaReach(m, S, t) ==
    IF ~CanBeHot(t) THEN S
    ELSE LET T == SaImage(m, S)
         IN IF T = S THEN S ELSE SaReach(m, T, Cool(t))

\* simulated_annealing (lines 493-537) as a call: the pairs it can return.
simulated_annealing(m, index0, cost0) ==
    LET t0 == [lo |-> InitialTemperature * TemperatureScale,
               hi |-> InitialTemperature * TemperatureScale]
    IN { <<s[2], s[3]>> : s \in SaReach(m, {<<index0, index0, cost0>>}, t0) }

\* lines 431-432: math.ceil(math.log(L / 3, 3 / 2)), the least e with
\* (3/2)^e >= L/3, for L >= 4.
RECURSIVE ExpectedFrom(_, _)
ExpectedFrom(L, e) ==
    IF 3 ^ (e + 1) >= L * 2 ^ e THEN e ELSE ExpectedFrom(L, e + 1)

expected_iterations == ExpectedFrom(range_len - 1, 0)

\* lines 408-410: the improving side of the last iteration is not the one of
\* the iteration before.
Fluctuates(h) ==
    Lt(h[Len(h)][1], h[Len(h)][2]) # Lt(h[Len(h) - 1][1], h[Len(h) - 1][2])

\* line 433: more iterations than expected, the interval still wide.
Overdue(iter_count, left_bound, right_bound) ==
    iter_count > expected_iterations /\ (right_bound - left_bound) > 3

\* lines 454-457: the right probe is the better one and is below the right
\* probe of the iteration before.
NonMonotonic(h) ==
    /\ Lt(h[Len(h)][2], h[Len(h)][1])
    /\ Lt(h[Len(h)][2], h[Len(h) - 1][2])

\* line 406: len(performance_history) > 2, the length being iter_count.
DetectionRuns(iter_count) == iter_count > 2

\* lines 406-457: a stall is detected.
StallDetected(iter_count, h, left_bound, right_bound) ==
    /\ DetectionRuns(iter_count)
    /\ \/ Fluctuates(h)
       \/ Overdue(iter_count, left_bound, right_bound)
       \/ NonMonotonic(h)

\* The last two entries of performance_history: no line reads an older one.
LastTwo(h) == IF Len(h) > 2 THEN SubSeq(h, Len(h) - 1, Len(h)) ELSE h

\* Everything but the locals of ternary_search and of the annealing it calls.
ternaryRest ==
    <<lineRest, range_len, landscape, sa_module, temperature, sa_current_index,
      sa_best_index, sa_best_cost, sa_steps>>

\* lines 316-359: the three probes around the initial index (held in
\* ts_best_index, which line 356 sets to it) and the first interval.
TsStart ==
    /\ opc = "ts_start"
    /\ LET current_index == ts_best_index
           cost_here == calculate_cost(current_index)
           right_cost == calculate_cost(Min(current_index + 1, range_len - 1))
           left_cost == calculate_cost(Max(current_index - 1, 0))
           left_distance == current_index
           right_distance == range_len - 1 - current_index
           rightward ==
               IF Lt(right_cost, cost_here) /\ Lt(right_cost, left_cost) THEN TRUE
               ELSE IF Lt(left_cost, cost_here) /\ Lt(left_cost, right_cost) THEN FALSE
               ELSE ~(left_distance > right_distance)
       IN /\ ts_left_bound' = (IF rightward THEN current_index ELSE 0)
          /\ ts_right_bound' = (IF rightward THEN range_len - 1 ELSE current_index)
          /\ ts_last_direction' = (IF rightward THEN 1 ELSE -1)
          /\ ts_best_cost' = cost_here
    /\ ts_iter_count' = 0
    /\ ts_history' = <<>>
    /\ opc' = "ts_loop"
    /\ UNCHANGED <<ternaryRest, ts_best_index, ts_scan, ts_result, sa_initial_cost,
                   sa_last, sa_result>>

\* lines 361-476: one iteration of the narrowing loop, with the annealing it
\* falls back to and the return that follows when a stall is detected.
TsIterate ==
    /\ opc = "ts_loop"
    /\ ts_iter_count < range_len
    /\ (ts_right_bound - ts_left_bound) > 3
    /\ LET left_third_index == ts_left_bound + (ts_right_bound - ts_left_bound) \div 3
           right_third_index == ts_right_bound - (ts_right_bound - ts_left_bound) \div 3
           left_cost == calculate_cost(left_third_index)
           right_cost == calculate_cost(right_third_index)
           h == Append(ts_history, <<left_cost, right_cost>>)
           left_bound == IF Lt(left_cost, right_cost) THEN ts_left_bound ELSE left_third_index
           right_bound == IF Lt(left_cost, right_cost) THEN right_third_index ELSE ts_right_bound
           b1 == IF Lt(left_cost, ts_best_cost)
                 THEN <<left_third_index, left_cost>>
                 ELSE <<ts_best_index, ts_best_cost>>
           b2 == IF Lt(right_cost, b1[2]) THEN <<right_third_index, right_cost>> ELSE b1
           iter_count == ts_iter_count + 1
       IN /\ ts_history' = LastTwo(h)
          /\ ts_left_bound' = left_bound
          /\ ts_right_bound' = right_bound
          /\ ts_last_direction' = (IF Lt(left_cost, right_cost) THEN -1 ELSE 1)
          /\ ts_iter_count' = iter_count
          /\ IF StallDetected(iter_count, h, left_bound, right_bound)
             THEN \E annealed \in simulated_annealing(sa_module, b2[1], b2[2]) :
                     LET best == IF Lt(annealed[2], b2[2]) THEN annealed ELSE b2
                     IN /\ sa_initial_cost' = b2[2]
                        /\ sa_last' = [step |-> "seed", index |-> b2[1]]
                        /\ sa_result' = annealed
                        /\ ts_best_index' = best[1]
                        /\ ts_best_cost' = best[2]
                        /\ ts_result' = best
                        /\ opc' = "ts_done"
             ELSE /\ ts_best_index' = b2[1]
                  /\ ts_best_cost' = b2[2]
                  /\ UNCHANGED <<opc, ts_result, sa_initial_cost, sa_last, sa_result>>
    /\ UNCHANGED <<ternaryRest, ts_scan>>

\* lines 361 and 478: the loop ends and the scan of the interval begins.
TsLoopExit ==
    /\ opc = "ts_loop"
    /\ ~(ts_iter_count < range_len /\ (ts_right_bound - ts_left_bound) > 3)
    /\ ts_scan' = ts_left_bound
    /\ opc' = "ts_scan"
    /\ UNCHANGED <<ternaryRest, sa_initial_cost, sa_last, sa_result, ts_left_bound,
                   ts_right_bound, ts_last_direction, ts_iter_count, ts_best_index,
                   ts_best_cost, ts_history, ts_result>>

\* lines 478-487: one index of the scan.
TsScanStep ==
    /\ opc = "ts_scan"
    /\ ts_scan <= ts_right_bound
    /\ LET cost == calculate_cost(ts_scan)
       IN IF Lt(cost, ts_best_cost)
          THEN ts_best_index' = ts_scan /\ ts_best_cost' = cost
          ELSE UNCHANGED <<ts_best_index, ts_best_cost>>
    /\ ts_scan' = ts_scan + 1
    /\ UNCHANGED <<ternaryRest, opc, sa_initial_cost, sa_last, sa_result, ts_left_bound,
                   ts_right_bound, ts_last_direction, ts_iter_count, ts_history,
                   ts_result>>

\* lines 489-491: return best_params, best_cost.
TsReturn ==
    /\ opc = "ts_scan"
    /\ ts_scan > ts_right_bound
    /\ ts_result' = <<ts_best_index, ts_best_cost>>
    /\ opc' = "ts_done"
    /\ UNCHANGED <<ternaryRest, sa_initial_cost, sa_last, sa_result, ts_left_bound,
                   ts_right_bound, ts_last_direction, ts_iter_count, ts_best_index,
                   ts_best_cost, ts_history, ts_scan>>

\* ternary_search is entered with the strength at its initial index (lines
\* 316-318), which ts_best_index holds.
InitTernary ==
    /\ kind = "x265"
    /\ allow_pruning = TRUE
    /\ InitEvaluator
    /\ InitOptimizerBase("ts_start", {<<>>}, {NoTarget})
    /\ NoGenetic
    /\ NoCall
    /\ idx = IdxSpace
    /\ range_len = TsLen
    /\ landscape \in Landscapes(TsLen)
    /\ sa_module \in {"cutree", "qcomp"}
    /\ sa_initial_cost = Inf
    /\ temperature = [lo |-> 0, hi |-> 0]
    /\ sa_current_index = 0
    /\ sa_best_index = 0
    /\ sa_best_cost = Inf
    /\ sa_steps = 0
    /\ sa_last = [step |-> "none"]
    /\ sa_result = <<>>
    /\ ts_left_bound = 0
    /\ ts_right_bound = 0
    /\ ts_last_direction = 0
    /\ ts_iter_count = 0
    /\ ts_best_index \in 0..(TsLen - 1)
    /\ ts_best_cost = Inf
    /\ ts_history = <<>>
    /\ ts_scan = 0
    /\ ts_result = <<>>

NextTernary ==
    \/ TsStart
    \/ TsIterate
    \/ TsLoopExit
    \/ TsScanStep
    \/ TsReturn

SpecTernary == InitTernary /\ [][NextTernary]_vars

\* ------------------------------------------------- claims on the evaluator

\* C1: between two reset() calls the expensive measurement of an
\* X265CostEvaluator runs at most once per fingerprint: a fingerprint whose
\* measurement has ended is in the cache, whatever cost it ended with (the
\* infinite sentinel included), and an evaluate() served from the cache
\* returns the stored cost and submits no video.
C1_MeasuredAtMostOnce ==
    kind = "x265" =>
        /\ \A fp \in DOMAIN measured :
              /\ measured[fp] <= 1
              /\ fp \in DOMAIN cache \/ (epc # "idle" /\ fp = call_fp)
        /\ outcome = "hit" =>
              /\ call_fp \in DOMAIN cache
              /\ ret = cache[call_fp]
              /\ started = {}

\* C1 witness: a fingerprint measured once, whose stored cost is the
\* sentinel, has been served again from the cache.
C1_Witness ==
    /\ kind = "x265"
    /\ outcome = "hit"
    /\ ret = Inf
    /\ call_fp \in DOMAIN measured
    /\ measured[call_fp] = 1

\* The case of C9: the last call measured a workload of two non-empty
\* groups, the global best was finite when it began, and the first group
\* completed with an average above twice that best.
C9_Case ==
    /\ kind = "x265"
    /\ epc = "idle"
    /\ outcome = "measured"
    /\ call_n > FirstGroupLen
    /\ IsFinite(best_before)
    /\ Len(g_loss) >= 1
    /\ Lt(MulInt(best_before, 2), g_loss[1])

\* C9: in that case, with pruning enabled evaluate() returned the sentinel
\* and submitted no video of the second group; with pruning disabled it
\* submitted every video of both groups, and when the second group completed
\* too, with finite group losses, it returned their finite average.
C9_PruningToggle ==
    C9_Case =>
        IF allow_pruning
        THEN /\ ret = Inf
             /\ started = Group(1, call_n)
        ELSE /\ started = Group(1, call_n) \cup Group(2, call_n)
             /\ (Len(g_loss) = 2 /\ IsFinite(g_loss[1]) /\ IsFinite(g_loss[2])) =>
                   /\ ret = DivInt(Add(g_loss[1], g_loss[2]), 2)
                   /\ IsFinite(ret)

\* C9 witness: a pruned call.
C9_Witness == C9_Case /\ allow_pruning /\ ret = Inf /\ started = Group(1, call_n)

\* The other half of C9's case is reachable too: the same inputs with
\* pruning disabled, both groups completed.
C9_WitnessUnpruned ==
    C9_Case /\ ~allow_pruning /\ Len(g_loss) = 2 /\ IsFinite(ret)

\* C10: a failure of the measurement of any video makes evaluate() return
\* the infinite sentinel as a value; the call never ends by an exception.
C10_FailureIsValue ==
    (epc = "idle" /\ call_failed) => (outcome = "measured" /\ ret = Inf)

\* ------------------------------------------------- claims on the optimizer

\* C2: when _directional_search was called with current_cost equal to the
\* cost of the configuration held, the cost it returns, and the cost of the
\* configuration it leaves, are less than or equal to that starting cost.
C2_DirectionalMonotone ==
    (opc = "dir_done" /\ start_ok) =>
        /\ Le(current_cost, start_cost)
        /\ Fingerprint(get_all_config(idx)) \in DOMAIN cache
        /\ Le(cache[Fingerprint(get_all_config(idx))], start_cost)

\* C2 witness: a search that walked at least two steps and lowered the cost.
C2_Witness ==
    /\ opc = "dir_done"
    /\ start_ok
    /\ s_param = "qcomp"
    /\ DefaultIdx("qcomp") - idx["qcomp"]["qcomp"] >= 2
    /\ Lt(current_cost, start_cost)

\* The evaluator's cost of the configuration that differs from the held one
\* in having index i for the parameter searched.
CostAt(i) == cache[Fingerprint(get_all_config(SetIdx(idx, CurModule, s_param, i)))]

C3_WitnessTie ==
    /\ opc = "trav_done"
    /\ start_ok
    /\ IsFinite(min_cost)
    /\ \E i \in 0..(Len0(s_param) - 1) : i # original_idx /\ CostAt(i) = min_cost
    /\ idx[CurModule][s_param] = original_idx

\* An inner round of _optimize_dual_param_module is in progress.
InDualRound ==
    /\ opc \in {"dir_left", "dir_right", "dir_walk", "dir_done", "trav", "trav_done"}
    /\ IsDual(CurModule)

\* C4: when the mode of a dual module makes the strength inactive at the
\* start of an inner round, the round evaluates no configuration with
\* another strength and leaves the strength index as it was.
C4_InactiveStrengthSkipped ==
    (InDualRound /\ ~is_strength_active(CurModule, round_mode)) =>
        /\ ~round_str_probed
        /\ idx[CurModule][str_param(CurModule)] = round_str_idx

\* C5: optimize() terminates.
C5_Terminates == <>(opc = "done")

\* C6: when optimize() has returned, the evaluator's global best and the
\* cost of the returned configuration are at most the cost of the initial
\* configuration.
C6_BestAtMostInitial ==
    opc = "done" =>
        /\ Le(global_min_cost, initial_cost)
        /\ Fingerprint(result) \in DOMAIN cache
        /\ Le(cache[Fingerprint(result)], initial_cost)

\* C6 witness: a run that returned a configuration cheaper than the initial.
C6_Witness ==
    /\ opc = "done"
    /\ IsFinite(initial_cost)
    /\ Lt(cache[Fingerprint(result)], initial_cost)
    /\ global_min_cost = cache[Fingerprint(result)]

\* C7: when optimize() has returned R, the space holds R, and R is the
\* configuration whose cost the search tracked: no probed and rejected
\* index is left applied.
C7_SpaceHoldsReturned ==
    opc = "done" =>
        /\ get_all_config(idx) = result
        /\ IsCostOf(min_global_cost, idx)

\* C7 witness: a run that returned something else than it started from,
\* after at least one probe was rolled back.
C7_Witness ==
    /\ opc = "done"
    /\ result # best_global_config
    /\ Cardinality(DOMAIN cache) > 2

\* ------------------------------------------- claims on the baseline searches

\* C8: when RandomOptimizer.optimize has returned its best configuration R,
\* get_all_config() on the space equals R.
C8_RandomSpaceHoldsReturned ==
    opc = "rs_done" => get_all_config(idx) = result

\* --------------------------------------- more claims on the evaluator

\* C11: after an evaluate() call has returned cost c the global best is at
\* most c, and the global best is the minimum of the costs returned since the
\* last reset, infinite if there is none.
C11_GlobalBestIsMinimum ==
    epc = "idle" =>
        /\ outcome \in {"hit", "measured"} => Le(global_min_cost, ret)
        /\ \A c \in returned : Le(global_min_cost, c)
        /\ IF returned = {} THEN global_min_cost = Inf
           ELSE global_min_cost \in returned

\* The other part of C11: a step that is not reset() never raises the global
\* best.
C11_NeverIncreases == [][Reset \/ Le(global_min_cost', global_min_cost)]_vars

\* The last call was ended by the early stop: its first group completed and
\* its second group, not empty, was never submitted.
Pruned ==
    /\ epc = "idle"
    /\ outcome = "measured"
    /\ Len(g_loss) = 1
    /\ Group(2, call_n) # {}
    /\ started = Group(1, call_n)

\* C12: after reset() of an X265CostEvaluator the cache is empty and the
\* global best infinite; a configuration is served from the cache only if it
\* was measured since the last reset, whatever was cached before; and a call
\* is stopped early only against a global best that is finite and is a cost
\* returned since the last reset.
C12_ResetDiscards ==
    kind = "x265" =>
        /\ (epc = "idle" /\ outcome = "none") =>
              /\ cache = <<>>
              /\ global_min_cost = Inf
              /\ eval_count = 0
        /\ DOMAIN cache \subseteq DOMAIN measured
        /\ outcome = "hit" => call_fp \in DOMAIN measured
        /\ Pruned => IsFinite(best_before) /\ best_before \in returned

\* C12 witness: the first call after a reset measured afresh, to the end of
\* both groups, a configuration that was cached when reset() was called,
\* though the discarded global best was below half its first group's loss.
C12_Witness ==
    /\ kind = "x265"
    /\ allow_pruning
    /\ epc = "idle"
    /\ outcome = "measured"
    /\ call_fp \in reset_seen.cached
    /\ IsFinite(reset_seen.best)
    /\ measured[call_fp] = 1
    /\ returned = {ret}
    /\ Len(g_loss) = 2
    /\ Lt(MulInt(reset_seen.best, 2), g_loss[1])

\* C13: an evaluate() without workload of a fingerprint that is not cached
\* ends in an error and leaves the cache, the global best and the counter as
\* they were; of a cached fingerprint it returns the cached cost, and
\* changes none of them either.
C13_NoWorkload ==
    [][/\ (epc = "idle" /\ outcome' = "error") =>
             /\ call_fp' \notin DOMAIN cache
             /\ UNCHANGED <<cache, global_min_cost, eval_count>>
       /\ (epc = "idle" /\ outcome' = "hit") =>
             /\ call_fp' \in DOMAIN cache
             /\ ret' = cache[call_fp']
             /\ UNCHANGED <<cache, global_min_cost, eval_count>>]_vars

\* C13 witness: the call failed on an evaluator that holds a cached cost, a
\* finite global best and a counter above zero.
C13_Witness ==
    /\ outcome = "error"
    /\ epc = "idle"
    /\ cache # <<>>
    /\ call_fp \notin DOMAIN cache
    /\ IsFinite(global_min_cost)
    /\ eval_count >= 1

\* ----------------------------------- more claims on the optimizer

\* The final cost of the test: evaluate(best_config) < 0.0001.
FinalCostLow == Lt(MockEvaluate(result, target_config), Rat(1, 10000))

\* C14, as stated: with the squared distance to any target made of valid
\* candidates as cost, optimize() started from the defaults returns exactly
\* the target, with a final cost below 1e-4.
C14_ReachesAnyTarget ==
    (opc = "done" /\ target_config # NoTarget) =>
        /\ result = target_config
        /\ FinalCostLow

\* C14, amended: ... to any target that, like the test's, keeps the cutree
\* switch at its default (the one parameter optimize() never searches) ...
C14_ReachesTarget ==
    (/\ opc = "done"
     /\ target_config # NoTarget
     /\ target_config["cutree"]["cutree"] = get_all_config(IdxSpace)["cutree"]["cutree"]) =>
        /\ result = target_config
        /\ FinalCostLow

\* C14 witness: the target of a finished run differed from the defaults in
\* aq-mode, aq-strength, cutree-strength and qcomp, the last by two steps.
C14_Witness ==
    /\ opc = "done"
    /\ target_config # NoTarget
    /\ result = target_config
    /\ LET d == get_all_config(IdxSpace)
       IN /\ target_config["vaq"]["aq-mode"] # d["vaq"]["aq-mode"]
          /\ target_config["vaq"]["aq-strength"] # d["vaq"]["aq-strength"]
          /\ target_config["cutree"]["cutree-strength"] # d["cutree"]["cutree-strength"]
          /\ d["qcomp"]["qcomp"] - target_config["qcomp"]["qcomp"] >= 2
          /\ target_config["cutree"]["cutree"] = d["cutree"]["cutree"]

\* The random search has made max_evals + 1 evaluate() calls when it returns.
C15_RandomBudget == opc = "rs_done" => calls = MaxRandEvals + 1

\* C15: RandomOptimizer(max_evals = B).optimize makes exactly B + 1
\* evaluate() calls, and GeneticOptimizer(pop_size = P, generations =
\* G).optimize makes exactly P + G * P, whatever the costs and the draws.
C15_EvaluateBudget ==
    /\ C15_RandomBudget
    /\ opc \in {"ga_done", "ga_raised"} => calls = pop_size + generations * pop_size

\* A genetic run that returns has made P + G * P evaluate() calls.
C15_GeneticBudgetWhenReturned ==
    opc = "ga_done" => calls = pop_size + generations * pop_size

\* The population sizes with which no tournament draws more positions than
\* the population has.
EnoughForTournament == pop_size >= TournamentK \/ pop_size = 1

\* C20: GeneticOptimizer.optimize completes and returns a configuration for
\* every assignment of costs, finite or inf, also when every individual of
\* the initial population or of a tournament costs inf.
C20_AlwaysCompletes ==
    EnoughForTournament =>
        /\ opc # "ga_raised"
        /\ opc = "ga_done" => result # NoIndividual

\* The run aborts only where no individual had a finite cost.
C20_AbortsOnlyWithoutFinite ==
    (EnoughForTournament /\ opc = "ga_raised") =>
        /\ best_individual = NoIndividual
        /\ ga_min_cost = Inf
        /\ \A k \in 1..Len(fitnesses) : fitnesses[k] = Inf

\* C16: every Parameter's index is within 0 .. len(candidates) - 1 after
\* any sequence of move_index, set_value, random_sample,
\* update_from_flat_dict, reset and index assignments of the optimizers.
C16_IndexInRange ==
    \A m \in ModuleNames : \A p \in ParamsOf(m) :
        idx[m][p] \in 0..(Len0(p) - 1)

C16_Witness ==
    /\ sp_call.op = "move_index" /\ sp_ret.state = "returned"
    /\ sp_call.step = 2
    /\ idx[sp_call.m][sp_call.p] = Len0(sp_call.p) - 1

\* Value v is candidate i of parameter p, exactly or within the tolerance.
IsCandidate(p, i, v) == CandValue(p, i) = v.base /\ Abs(v.e) < Tolerance

\* C17: set_value(v) with v no candidate, the tolerance of 1e-9 counted,
\* raises and leaves the index as it was, never the closest candidate; with
\* v equal to a candidate it sets the index to that candidate's position.
C17_SetValue ==
    [][Pending("set_value") =>
          LET m == sp_call.m
              p == sp_call.p
              v == sp_call.v
              I == 0..(Len0(p) - 1)
          IN /\ (\A i \in I : ~IsCandidate(p, i, v)) =>
                    sp_ret'.state = "raised" /\ idx' = idx
             /\ \A i \in I :
                    (v = Value(CandValue(p, i), 0)) =>
                        sp_ret'.state = "returned" /\ idx' = SetIdx(idx, m, p, i)]_vars

C17_Witness ==
    /\ sp_call.op = "set_value" /\ sp_ret.state = "raised"
    /\ Lt(CandValue(sp_call.p, Len0(sp_call.p) - 1), sp_call.v.base)
    /\ idx[sp_call.m][sp_call.p] < Len0(sp_call.p) - 1

\* The entries of a flat dict whose key is "m/p".
Named(flat, m, p) == {k \in 1..Len(flat) : flat[k][1] = <<m, Slash, p>>}

\* C19: update_from_flat_dict sets exactly the parameters named by the
\* "module/param" keys that exist; a key without a slash, with an unknown
\* module or with an unknown parameter is ignored without an error, and
\* every other parameter keeps its value.
C19_FlatDictUpdate ==
    [][Pending("update_from_flat_dict") =>
          LET flat == sp_call.flat
          IN /\ (\A mp \in ModuleParams : \A k \in Named(flat, mp[1], mp[2]) :
                     \E i \in 0..(Len0(mp[2]) - 1) : IsCandidate(mp[2], i, flat[k][2]))
                    => sp_ret'.state = "returned"
             /\ sp_ret'.state = "returned" =>
                    \A mp \in ModuleParams :
                        IF Named(flat, mp[1], mp[2]) = {}
                        THEN idx'[mp[1]][mp[2]] = idx[mp[1]][mp[2]]
                        ELSE \A k \in Named(flat, mp[1], mp[2]) :
                                 IsCandidate(mp[2], idx'[mp[1]][mp[2]], flat[k][2])]_vars

C19_Witness ==
    /\ sp_call.op = "update_from_flat_dict" /\ sp_ret.state = "returned"
    /\ Named(sp_call.flat, "cutree", "cutree-strength") # {}
    /\ \E k \in 1..Len(sp_call.flat) : sp_call.flat[k][1] = <<"psyrdo", Slash, "aq-mode">>
    /\ idx["cutree"]["cutree-strength"] = 0
    /\ idx["vaq"]["aq-mode"] # DefaultIdx("aq-mode")

\* idx + step brought into 0 .. len - 1.
Clamped(p, i) == IF i < 0 THEN 0 ELSE IF i > Len0(p) - 1 THEN Len0(p) - 1 ELSE i

\* move_index by one step on the space as it is: in range, and unchanged by
\* a step off either end.
MoveIndexClamps ==
    \A m \in ModuleNames : \A p \in ParamsOf(m) :
        /\ \A step \in {-1, 1} :
               move_index(idx, m, p, step) = Clamped(p, idx[m][p] + step)
        /\ idx[m][p] = 0 => move_index(idx, m, p, -1) = idx[m][p]
        /\ idx[m][p] = Len0(p) - 1 => move_index(idx, m, p, 1) = idx[m][p]

\* The walk of _directional_search stands at the last candidate of its
\* direction.
AtEdge ==
    /\ opc = "dir_walk" /\ direction # 0
    /\ idx[CurModule][s_param] = IF direction = 1 THEN Len0(s_param) - 1 ELSE 0

\* C18: move_index(step) clamps idx + step into 0 .. len - 1 and returns the
\* value at the new index; a step of -1 at index 0 or of +1 at the last index
\* leaves the index unchanged, and on that unchanged index
\* _directional_search stops at an edge without evaluating.
C18_MoveIndexEdge ==
    [][/\ MoveIndexClamps
       /\ AtEdge =>
              /\ opc' = "dir_done"
              /\ UNCHANGED <<idx, cache, eval_count, measured, current_cost>>
       /\ (opc = "dir_walk" /\ direction # 0 /\ ~AtEdge) =>
              /\ idx'[CurModule][s_param] \in
                     {idx[CurModule][s_param], idx[CurModule][s_param] + direction}
              /\ trav_evals' = trav_evals
              /\ IsCostOf(current_cost, idx)'
       /\ Pending("move_index") =>
              /\ idx' = SetIdx(idx, sp_call.m, sp_call.p,
                               Clamped(sp_call.p, idx[sp_call.m][sp_call.p] + sp_call.step))
              /\ sp_ret'.value = get_all_config(idx')[sp_call.m][sp_call.p]]_vars

C18_Witness ==
    /\ opc = "dir_done" /\ direction = 1
    /\ idx[CurModule][s_param] = Len0(s_param) - 1
    /\ Lt(current_cost, start_cost)

\* C21: simulated_annealing makes the same number of turns, one evaluation
\* each, whatever the costs and the draws: the temperature starts at 100,
\* is multiplied by 0.95 after every turn and the loop stops once it is not
\* above 0.01.
C21_FixedStepCount ==
    /\ opc = "sa_done" => sa_steps = 180
    /\ opc = "sa_loop" => sa_steps <= 180 /\ (CanBeHot(temperature) # CanBeCold(temperature))

C21_Witness ==
    /\ opc = "sa_done" /\ sa_steps = 180
    /\ sa_result[2] = FromInt(0) /\ sa_result[1] # sa_current_index

\* C25: a candidate whose cost is strictly below the best cost is accepted
\* unconditionally: after that turn the walker stands on the candidate's
\* index, which is also the best index; the pair returned is the best seen,
\* its cost at most the initial cost.
C25_ImprovementMovesWalker ==
    /\ (opc = "sa_loop" /\ sa_last.step = "probe" /\ sa_last.improved) =>
           /\ sa_best_cost = landscape[sa_best_index]
           /\ sa_current_index = sa_best_index
    /\ opc = "sa_done" => Le(sa_result[2], sa_initial_cost)

\* What holds of the pair returned.
C25_ReturnsBestSeen ==
    /\ (sa_last.step = "probe" /\ sa_last.improved) =>
           sa_best_cost = landscape[sa_best_index]
    /\ opc = "sa_done" =>
           /\ sa_result = <<sa_best_index, sa_best_cost>>
           /\ Le(sa_result[2], sa_initial_cost)
           /\ Lt(sa_result[2], sa_initial_cost) => sa_result[2] = landscape[sa_result[1]]

\* The iteration just made has an iteration before it and shows one of the
\* three signs of a stall.
StallWithPrevious ==
    /\ ts_iter_count >= 2
    /\ \/ Fluctuates(ts_history)
       \/ Overdue(ts_iter_count, ts_left_bound, ts_right_bound)
       \/ NonMonotonic(ts_history)

FellBack == opc = "ts_done" /\ sa_last.step = "seed"

\* C26: whenever an iteration of ternary_search that has a previous
\* iteration shows a stall (the improving side differs from the previous
\* iteration's, or the iteration count exceeds the expected count while the
\* interval is wider than 3, or the right probe is non-monotonic against
\* the previous right probe), narrowing is abandoned in that same iteration
\* and simulated annealing, seeded with the best index and cost so far,
\* gives a result whose cost is no worse than the best before the fallback.
C26_StallAbandonsNarrowing ==
    /\ (opc \in {"ts_loop", "ts_scan"} /\ ts_iter_count >= 2) => ~StallWithPrevious
    /\ FellBack =>
           /\ StallWithPrevious
           /\ Le(ts_result[2], sa_initial_cost)
           /\ ts_result[2] = landscape[ts_result[1]]

\* What the fallback does once a stall is detected: it ends the search in
\* the iteration of the detection, and its result is no worse than the seed.
C26_FallbackNoWorse ==
    FellBack =>
        /\ StallWithPrevious
        /\ ts_iter_count >= 3
        /\ Le(ts_result[2], sa_initial_cost)
        /\ sa_initial_cost = landscape[sa_last.index]
        /\ ts_result[2] = landscape[ts_result[1]]

C26_FallbackReached ==
    FellBack /\ Lt(ts_result[2], sa_initial_cost)

\* Every cost the evaluator has returned is finite and not negative.
FiniteCosts ==
    \A f \in DOMAIN cache : IsFinite(cache[f]) /\ Le(FromInt(0), cache[f])

\* The inner loop of _optimize_dual_param_module is running.
InDualLoop ==
    /\ opc \in {"dual_round", "dir_left", "dir_right", "dir_walk", "dir_done", "trav",
                "trav_done"}
    /\ IsDual(CurModule)

\* The round just made changed the cost by less than 1e-6.
SmallChange == Lt(AbsF(Sub(prev_cost, min_cost)), inner_tol)

\* The round just made lowered the cost by 1e-6 or more.
RoundLowers == Le(Add(min_cost, inner_tol), prev_cost)

\* A further round begins: the round before it lowered the cost by 1e-6 or
\* more (prev_cost is infinite before the first round of a module).
AnotherRoundAfterDrop == Le(Add(local_cost, inner_tol), prev_cost)

\* C22: with an evaluator that returns finite, non-negative costs the inner
\* loop of _optimize_dual_param_module terminates: a round that does not
\* end the loop lowers the module's cost by at least 1e-6, and the loop is
\* left after the first round whose change is below 1e-6.
C22_InnerLoopTerminates ==
    ([]FiniteCosts) =>
        /\ [](InDualLoop => <>(~InDualLoop))
        /\ [](opc = "trav_done" => (SmallChange \/ RoundLowers))
        /\ []((opc = "dual_round" /\ IsFinite(prev_cost)) => AnotherRoundAfterDrop)

C22_Witness ==
    /\ opc = "trav_done"
    /\ FiniteCosts
    /\ RoundLowers
    /\ ~SmallChange
    /\ round_str_probed

\* The index of the parameter _directional_search is searching.
SearchedIdx == idx[CurModule][s_param]

\* The left probe, the right probe or a step of the walk improved.
SomeImproved ==
    dir_trace.left = "improved" \/ dir_trace.right = "improved" \/ dir_trace.walk = "improved"

\* C23: when _directional_search returns, the index is the last position
\* whose evaluation strictly lowered the cost, or the starting index if
\* neither neighbour improved; the left neighbour is probed first and the
\* right one is evaluated only if the left is absent or did not improve;
\* every probe or step that did not improve is rolled back.
C23_DirectionalResult ==
    opc = "dir_done" =>
        /\ SearchedIdx = dir_trace.improved_at
        /\ (dir_trace.left # "improved" /\ dir_trace.right # "improved") =>
               /\ SearchedIdx = dir_trace.start
               /\ dir_trace.walk = "none"
               /\ current_cost = start_cost
        /\ SomeImproved =>
               /\ Lt(current_cost, start_cost)
               /\ IsCostOf(current_cost, idx)
        /\ (dir_trace.left = "none") = (dir_trace.start = 0)
        /\ (dir_trace.right # "none") =
               (dir_trace.left # "improved" /\ dir_trace.start < Len0(s_param) - 1)
        /\ dir_trace.left = "failed" => SearchedIdx >= dir_trace.start
        /\ dir_trace.right = "failed" => SearchedIdx = dir_trace.start
        /\ dir_trace.walk = "failed" => SearchedIdx # dir_trace.failed_at

C23_Witness ==
    /\ opc = "dir_done"
    /\ dir_trace.left = "failed"
    /\ dir_trace.right = "improved"
    /\ SearchedIdx = dir_trace.start + 1

\* C29: between search steps the cost the optimizer tracks is the
\* evaluator's cost of the configuration the space holds: min_global_cost
\* between modules and at the return, and the cost _directional_search,
\* _traversal_search and _optimize_dual_param_module hand back; it is never
\* the cost of a configuration that was probed and rolled back.
C29_TrackedCostIsHeldCost ==
    /\ opc \in {"iter", "module", "done"} => IsCostOf(min_global_cost, idx)
    /\ opc = "dual_round" => IsCostOf(local_cost, idx)
    /\ opc \in {"dir_left", "dir_right", "dir_walk", "dir_done"} =>
           IsCostOf(current_cost, idx)
    /\ opc = "trav_done" => IsCostOf(min_cost, idx)

C29_Witness ==
    /\ opc = "trav_done"
    /\ IsCostOf(min_cost, idx)
    /\ round_str_probed
    /\ idx[CurModule][s_param] # original_idx
    /\ idx[CurModule][s_param] # Len0(s_param) - 1
    /\ Lt(min_cost, start_cost)

\* Index assignments a and b agree everywhere but at parameter p of module m.
DiffersOnlyIn(a, b, m, p) ==
    \A mm \in ModuleNames : \A pp \in ParamsOf(mm) :
        (mm # m \/ pp # p) => a[mm][pp] = b[mm][pp]

\* A search of a parameter is in progress.
Searching == opc \in {"dir_left", "dir_right", "dir_walk", "dir_done", "trav"}

\* C30: while one parameter of a module is searched, every configuration
\* passed to evaluate() differs from the configuration held before that
\* search only in that parameter, the other modules unchanged; of the
\* cutree module only cutree-strength is varied, so its on/off parameter
\* keeps its initial value for the whole run.
C30_OnlySearchedParameterVaries ==
    /\ Searching =>
           /\ DiffersOnlyIn(search_trace.last, search_trace.base, CurModule, s_param)
           /\ DiffersOnlyIn(idx, search_trace.base, CurModule, s_param)
    /\ (opc \in {"dir_left", "dir_right", "dir_walk", "dir_done"} /\ CurModule = "cutree") =>
           s_param = "cutree-strength"
    /\ idx["cutree"]["cutree"] = DefaultIdx("cutree")
    /\ \A f \in DOMAIN cache : \A e \in f :
           e[1] = "cutree" =>
               <<"cutree", Candidates("cutree")[DefaultIdx("cutree") + 1]>> \in e[2]

C30_Witness ==
    /\ opc = "dir_done"
    /\ CurModule = "cutree"
    /\ dir_trace.left = "failed"
    /\ dir_trace.right = "improved"
    /\ search_trace.last = idx
    /\ idx # search_trace.base
    /\ Cardinality(DOMAIN cache) >= 3

\* The evaluator has returned a finite cost.
SomeFiniteCost == \E f \in DOMAIN cache : IsFinite(cache[f])

\* The individuals of the population held.
Individuals == {population[i] : i \in 1..Len(population)}

\* C24: GeneticOptimizer.optimize returns the cheapest individual seen in
\* any generation, generation 0 included: when some cost was finite, the
\* cost of the individual returned is the minimum of all costs evaluate()
\* returned during the run, so at most the cost of the default
\* configuration; every generation after generation 0 holds the best
\* individual so far, and every population has exactly pop_size members.
C24_ReturnsBestSeen ==
    /\ (opc = "ga_done" /\ SomeFiniteCost) =>
           /\ result # NoIndividual
           /\ Fingerprint(result) \in DOMAIN cache
           /\ cache[Fingerprint(result)] = ga_min_cost
           /\ \A f \in DOMAIN cache : Le(cache[Fingerprint(result)], cache[f])
           /\ Le(cache[Fingerprint(result)], cache[Fingerprint(get_all_config(IdxSpace))])
    /\ (opc \in {"ga_eval", "ga_done"} /\ SomeFiniteCost) => best_individual \in Individuals
    /\ opc \in {"ga_init_eval", "ga_eval", "ga_done"} => Len(population) = pop_size

C24_Witness ==
    /\ opc = "ga_done"
    /\ pop_size = 3
    /\ gen = 1
    /\ result # population[1]
    /\ Lt(cache[Fingerprint(result)], cache[Fingerprint(population[1])])
    /\ Lt(cache[Fingerprint(result)], cache[Fingerprint(get_all_config(IdxSpace))])

\* The parameters in which individuals a and b differ.
DiffParams(a, b) ==
    { mp \in UNION { { <<m, p>> : p \in ParamsOf(m) } : m \in ModuleNames } :
          a[mp[1]][mp[2]] # b[mp[1]][mp[2]] }

\* Every value of individual a is a candidate of its parameter.
LegalIndividual(a) ==
    \A m \in ModuleNames : \A p \in ParamsOf(m) :
        \E i \in 1..Len0(p) : Candidates(p)[i] = a[m][p]

\* What holds of the child and of the individual _mutate returned.
BreedResult ==
    /\ opc \in {"breed_mutate", "breed_done"} =>
           \A m \in ModuleNames :
               next_generation[1][m] = population[1][m]
                   \/ next_generation[1][m] = population[2][m]
    /\ opc = "breed_done" =>
           /\ Cardinality(DiffParams(next_generation[2], next_generation[1])) <= 1
           /\ LegalIndividual(next_generation[2])

\* The calls leave the individuals they were given as they were.
BreedKeepsGiven ==
    /\ opc = "breed_cross" => population' = population
    /\ opc = "breed_mutate" =>
           /\ population' = population
           /\ next_generation'[1] = next_generation[1]

\* C28: _mutate never modifies the individual it is given: it returns that
\* individual unchanged or a copy that differs in at most one parameter of
\* one module, the new value a candidate of the parameter; _crossover
\* returns a child each of whose modules is taken whole from one of the two
\* parents.
C28_BreedingOperators == []BreedResult /\ [][BreedKeepsGiven]_vars

C28_Witness ==
    /\ opc = "breed_done"
    /\ next_generation[1] # population[1]
    /\ next_generation[1] # population[2]
    /\ Cardinality(DiffParams(next_generation[2], next_generation[1])) = 1
    /\ Cardinality(DiffParams(population[1], population[2])) = 3

\* C27: within one evaluate() call the groups run one after another: no
\* worker of the second group starts before every worker of the first has
\* completed and the pruning check was made, also when a worker of the
\* first group fails; the workers only hand back their results, the cache
\* and the global best being written by the calling thread alone.
C27_GroupsInSequence ==
    /\ epc \in {"idle", "loop"} => pending = {}
    /\ epc = "workers" =>
           /\ pending \subseteq Group(gi, call_n)
           /\ started \cap Group(2, call_n) # {} => gi = 2
           /\ ~ShouldPrune(allow_pruning, count, total_rd_loss, global_min_cost)
    /\ (kind = "x265" /\ started \cap Group(2, call_n) # {} /\ Group(1, call_n) # {}) =>
           /\ Group(1, call_n) \subseteq started
           /\ Len(g_loss) >= 1
           /\ count >= 1 \/ epc = "idle"
    /\ epc \in {"workers", "vworkers"} =>
           /\ call_fp \notin DOMAIN cache
           /\ global_min_cost = best_before

C27_Witness ==
    /\ kind = "x265"
    /\ epc = "workers"
    /\ gi = 2
    /\ pending # {}
    /\ allow_pruning
    /\ global_min_cost # Inf
    /\ Len(g_loss) = 1
    /\ call_failed
====
